---- MODULE Spec2Model ----
(***************************************************************************)
(* Wave-refraction engine of shenmi-ganghang: dispersion solver, terrain   *)
(* model, direction-field solvers, the useWaveRefractionModel hook and the *)
(* ray tracer of WaveRefractionView.                                       *)
(*                                                                         *)
(* Numbers are fixed point.  Units:                                        *)
(*   positions x, y, lengths ........ decimetres  (1 m   = 10)             *)
(*   depth h ........................ millimetres (1 m   = 1000)           *)
(*   period T ....................... milliseconds                         *)
(*   angles ......................... milliradians                         *)
(*   wavenumber k, sigma, sigma^2 ... 1e-4        (1 rad/m = 10000)        *)
(*   phase speed c, sin, cos, ratios  1e-3                                 *)
(*   slope .......................... 1e-4                                 *)
(* The JavaScript values NaN, undefined and Infinity are kept as distinct  *)
(* values; arithmetic on them follows IEEE-754 / ECMAScript.               *)
(***************************************************************************)
EXTENDS Integers, Sequences, FiniteSets, TLC

(***************************************************************************)
(* JavaScript numbers                                                      *)
(***************************************************************************)
NaN == 1999999999
\* the value of a missing argument or property
Undef == 1999999998
Inf == 1999999997

IsNum(v) == v \notin {NaN, Undef, Inf}

Abs(v) == IF v < 0 THEN -v ELSE v

\* integer division rounding toward zero (the sign is kept)
Quot(a, b) ==
  IF b = 0 THEN 0
  ELSE IF (a >= 0) = (b > 0) THEN Abs(a) \div Abs(b) ELSE -(Abs(a) \div Abs(b))

\* a * b / s on JavaScript numbers
jsMul(a, b, s) ==
  IF a \in {NaN, Undef} \/ b \in {NaN, Undef} THEN NaN
  ELSE IF a = Inf \/ b = Inf
       THEN (IF a = 0 \/ b = 0 THEN NaN
             ELSE IF (a = Inf /\ b = Inf) \/ (a = Inf /\ b > 0) \/ (b = Inf /\ a > 0)
                  THEN Inf ELSE NaN)
  ELSE Quot(a * b, s)

\* a * s / b on JavaScript numbers (negative infinity is not represented:
\* it only arises from operands the model never produces)
jsDiv(a, b, s) ==
  IF a \in {NaN, Undef} \/ b \in {NaN, Undef} THEN NaN
  ELSE IF a = Inf THEN (IF b = Inf THEN NaN ELSE Inf)
  ELSE IF b = Inf THEN 0
  ELSE IF b = 0 THEN (IF a = 0 THEN NaN ELSE Inf)
  ELSE Quot(a * s, b)

\* JavaScript a >= b, a <= b, a > b, a < b: false when an operand is NaN
jsGe(a, b) == a \notin {NaN, Undef} /\ b \notin {NaN, Undef} /\ a >= b
jsLe(a, b) == a \notin {NaN, Undef} /\ b \notin {NaN, Undef} /\ a <= b
jsGt(a, b) == a \notin {NaN, Undef} /\ b \notin {NaN, Undef} /\ a > b
jsLt(a, b) == a \notin {NaN, Undef} /\ b \notin {NaN, Undef} /\ a < b

\* Math.max / Math.min: NaN if an operand is NaN
mathMax(a, b) == IF a \in {NaN, Undef} \/ b \in {NaN, Undef} THEN NaN
                 ELSE IF a >= b THEN a ELSE b
mathMin(a, b) == IF a \in {NaN, Undef} \/ b \in {NaN, Undef} THEN NaN
                 ELSE IF a <= b THEN a ELSE b

\* the element of a one-element set
The(S) == CHOOSE v \in S : TRUE

\* A local that the code assigns once is bound by a one-element set:
\* CHOOSE out \in {e : x \in {v}} : TRUE is e with x standing for the value
\* of v, and v is computed once.

\* the function f with its values computed: the array it stands for, filled
Computed(f) == CHOOSE array \in {f} : array = array

(***************************************************************************)
(* Math library in fixed point                                             *)
(***************************************************************************)
PiMrad == 3142
HalfPiMrad == 1571

\* Math.sin(a), a in milliradians, |a| <= pi; result in 1e-3
mathSin(angle) ==
  (CHOOSE out \in {
  IF ~IsNum(a) THEN NaN
  ELSE LET r  == IF a > HalfPiMrad THEN PiMrad - a
                 ELSE IF a < -HalfPiMrad THEN -PiMrad - a ELSE a
           x2 == (r * r) \div 1000
           x3 == Quot(x2 * r, 1000)
           x5 == Quot(x3 * x2, 1000)
           x7 == Quot(x5 * x2, 1000)
           x9 == Quot(x7 * x2, 1000)
           s  == r - Quot(x3, 6) + Quot(x5, 120) - Quot(x7, 5040) + Quot(x9, 362880)
       IN IF s > 1000 THEN 1000 ELSE IF s < -1000 THEN -1000 ELSE s
  : a \in {angle} } : TRUE)

\* Math.cos(a), a in milliradians, |a| <= pi; result in 1e-3
mathCos(angle) ==
  (CHOOSE out \in {
  IF ~IsNum(a) THEN NaN
  ELSE LET flip == Abs(a) > HalfPiMrad
           r  == IF flip THEN PiMrad - Abs(a) ELSE Abs(a)
           x2 == (r * r) \div 1000
           x4 == (x2 * x2) \div 1000
           x6 == (x4 * x2) \div 1000
           x8 == (x6 * x2) \div 1000
           c0 == 1000 - (x2 \div 2) + (x4 \div 24) - (x6 \div 720) + (x8 \div 40320)
           c  == IF c0 > 1000 THEN 1000 ELSE IF c0 < 0 THEN 0 ELSE c0
       IN IF flip THEN -c ELSE c
  : a \in {angle} } : TRUE)

RECURSIVE asinSearch(_, _, _)
\* least a in lo..hi with mathSin(a) >= r (mathSin is monotone on 0..pi/2)
asinSearch(r, lo, hi) ==
  IF lo >= hi THEN lo
  ELSE (CHOOSE out \in {
         IF mathSin(mid) >= r THEN asinSearch(r, lo, mid)
         ELSE asinSearch(r, mid + 1, hi)
         : mid \in {(lo + hi) \div 2} } : TRUE)

\* Math.asin(r), r in 1e-3; NaN outside [-1, 1]; result in milliradians
mathAsin(ratio) ==
  (CHOOSE out \in {
    IF ~IsNum(r) THEN NaN
    ELSE IF r > 1000 \/ r < -1000 THEN NaN
    ELSE IF r >= 0 THEN asinSearch(r, 0, HalfPiMrad)
    ELSE -asinSearch(-r, 0, HalfPiMrad)
    : r \in {ratio} } : TRUE)

\* e^(-n) for n = 0..11, in 1e-6
expNegInt == <<1000000, 367879, 135335, 49787, 18316, 6738, 2479, 912, 335, 123, 45, 17>>

\* Math.exp(-u) for u >= 0 in 1e-3; result in 1e-3
mathExpNeg(exponent) ==
  (CHOOSE out \in {
  IF u >= 12000 THEN 0
  ELSE LET n  == u \div 1000
           f  == u % 1000
           f2 == (f * f) \div 1000
           f3 == (f2 * f) \div 1000
           f4 == (f3 * f) \div 1000
           t  == 1000 - f + (f2 \div 2) - (f3 \div 6) + (f4 \div 24)
       IN (expNegInt[n + 1] * t) \div 1000000
  : u \in {exponent} } : TRUE)

\* a * b / 10^6 for 0 <= a <= 2 * 10^6 and 0 <= b <= 10^6, without
\* leaving 32 bits
mulMillionth(a, b) ==
  ((a \div 1000) * b) \div 1000 + ((a % 1000) * b) \div 1000000

\* n / d in 1e-6 for 0 <= n <= d <= 2 * 10^7 (long division, two digits
\* at a time)
ratioMillionth(n, d) ==
  LET q1 == (n * 100) \div d
      r1 == (n * 100) % d
      q2 == (r1 * 100) \div d
      r2 == (r1 * 100) % d
      q3 == (r2 * 100) \div d
  IN q1 * 10000 + q2 * 100 + q3

\* Math.tanh(x) for x >= 0 in 1e-5; result in 1e-6
mathTanh(argument) ==
  (CHOOSE out \in {
    IF x >= 400000 THEN 1000000
    ELSE LET xh  == x \div 1000
             xl  == x % 1000
             x2  == xh * xh * 100 + (2 * xh * xl) \div 10 + (xl * xl) \div 10000
             x4  == (x2 \div 1000) * (x2 \div 1000)
             num == 1000000 + x2 \div 9 + x4 \div 945
             den == 1000000 + (4 * x2) \div 9 + x4 \div 63
         IN (CHOOSE out \in {
              LET t == (x * (r \div 1000)) \div 100 + (x * (r % 1000)) \div 100000
              IN IF t > 1000000 THEN 1000000 ELSE t
              : r \in {ratioMillionth(num, den)} } : TRUE)
    : x \in {argument} } : TRUE)

\* 1 / (Math.cosh(x) * Math.cosh(x)) for x >= 0 in 1e-5; result in 1e-6
sech2(x) == (CHOOSE out \in {1000000 - mulMillionth(t, t) : t \in {mathTanh(x)}} : TRUE)

(***************************************************************************)
(* Dispersion solver (waveRefraction.ts)                                   *)
(***************************************************************************)
\* g in 1e-2 m/s^2
GRAVITY == 981
MAX_ITERATIONS == 100
\* 1e-6 rad/m, in 1e-6
TOLERANCE == 1
\* 2 * Math.PI in 1e-4
TwoPi == 62832

\* sigma = 2 pi / T, T in ms, result in 1e-4 rad/s
angularFrequency(T) == jsDiv(TwoPi, T, 1000)

\* f(k) = g k tanh(kh) - sigma^2 in 1e-6; k in 1e-4, h in mm
dispersionResidual(k, h, sigma2) ==
  (CHOOSE out \in {
    LET ktanh == (k * (tanh_kh \div 1000)) \div 10 + (k * (tanh_kh % 1000)) \div 10000
    IN (ktanh \div 1000) * GRAVITY * 10 + ((ktanh % 1000) * GRAVITY) \div 100
         - sigma2 * 100
    : tanh_kh \in {mathTanh((k * h) \div 100)} } : TRUE)

\* f'(k) = g tanh(kh) + g k h sech^2(kh) in 1e-4
dispersionDerivative(k, h) ==
  LET kh == (k * h) \div 100
  IN (CHOOSE out \in {
       LET tanh_kh == mathTanh(kh)
           khsech2 == IF sech2_kh = 0 THEN 0
                      ELSE (kh * (sech2_kh \div 1000)) \div 10000
                             + (kh * (sech2_kh % 1000)) \div 10000000
       IN ((tanh_kh \div 100) * GRAVITY) \div 100 + (khsech2 * GRAVITY) \div 100
       : sech2_kh \in {sech2(kh)} } : TRUE)

\* k_new = k - f / df of one iteration of the loop of solveWaveNumber
newtonStep(k, h, sigma2) ==
  (CHOOSE out \in {
    k - (IF Abs(f) > 10000000 THEN Quot(f, df) * 100 ELSE Quot(f * 100, df))
    : f \in {dispersionResidual(k, h, sigma2)},
      df \in {dispersionDerivative(k, h)} } : TRUE)

\* the loop body without its early return: the tolerance test never passes
newtonPass_noReturn(state, h, sigma2) ==
  IF state[2] >= MAX_ITERATIONS THEN state
  ELSE <<newtonStep(state[1], h, sigma2), state[2] + 1, FALSE>>

\* one pass through the body of the for loop of solveWaveNumber on the state
\* <<k, iterations executed, converged>>; a pass after the return or after
\* the last iteration changes nothing
newtonPass(state, h, sigma2) ==
  IF state[3] \/ state[2] >= MAX_ITERATIONS THEN state
  ELSE (CHOOSE out \in {
         IF Abs(k_new - state[1]) * 100 < TOLERANCE THEN <<k_new, state[2] + 1, TRUE>>
         ELSE <<k_new, state[2] + 1, FALSE>>
         : k_new \in {newtonStep(state[1], h, sigma2)} } : TRUE)

RECURSIVE newtonPasses(_, _, _, _)
\* n passes through the body of the loop, the second half after the first
newtonPasses(state, h, sigma2, n) ==
  IF n <= 0 THEN state
  ELSE IF n = 1 THEN newtonPass(state, h, sigma2)
  ELSE (CHOOSE out \in {
         newtonPasses(half, h, sigma2, n - n \div 2)
         : half \in {newtonPasses(state, h, sigma2, n \div 2)} } : TRUE)

\* the for loop of solveWaveNumber from iteration i with iterate k;
\* the result is <<returned k, iterations executed, converged>>
newtonIterate(k, h, sigma2, i) ==
  (CHOOSE out \in {
    newtonPasses(start, h, sigma2, MAX_ITERATIONS - i)
    : start \in {<<k, i, FALSE>>} } : TRUE)

\* solveWaveNumber with its iteration count and convergence flag, for
\* h >= 0.  With h = 0 the first iteration divides by f'(k) = 0 and with a
\* NaN, infinite or zero T sigma^2 is NaN, infinite or 0 / 0 follows: k is
\* NaN from then on, no iterate passes the tolerance test and NaN is
\* returned after MAX_ITERATIONS.
solveWaveNumberRun(h, T) ==
  IF ~IsNum(h) \/ ~IsNum(T) \/ T = 0 \/ h = 0 THEN <<NaN, MAX_ITERATIONS, FALSE>>
  ELSE LET sigma  == angularFrequency(T)
           sigma2 == Quot(sigma * sigma, 10000)
           k0     == Quot(sigma2 * 100, GRAVITY)
       IN newtonIterate(k0, h, sigma2, 0)

\* solveWaveNumber(h, T): h in mm, T in ms, k in 1e-4 rad/m
solveWaveNumber(h, T) == solveWaveNumberRun(h, T)[1]

RECURSIVE sqrtSearch(_, _, _)
\* greatest r in lo..hi with r * r <= n
sqrtSearch(n, lo, hi) ==
  IF lo >= hi THEN lo
  ELSE (CHOOSE out \in {
         IF mid * mid <= n THEN sqrtSearch(n, mid, hi)
         ELSE sqrtSearch(n, lo, mid - 1)
         : mid \in {(lo + hi + 1) \div 2} } : TRUE)

\* Math.sqrt(v), v and the result in 1e-4
mathSqrt(radicand) ==
  (CHOOSE out \in {
    IF v \in {NaN, Undef} THEN NaN
    ELSE IF v = Inf THEN Inf
    ELSE IF v < 0 THEN NaN
    ELSE sqrtSearch(v * 10000, 0, 46000)
    : v \in {radicand} } : TRUE)

\* solveFromWavelength(h, L): h in mm (h >= 0), L in dm; the result has k in
\* 1e-4, L in dm, T in ms, C in 1e-3
solveFromWavelength(h, L) ==
  LET k == jsDiv(TwoPi, L, 10)
  IN (CHOOSE out \in {
       LET ktanh  == (Abs(k) * (tanh_kh \div 1000)) \div 10
                       + (Abs(k) * (tanh_kh % 1000)) \div 10000
           sigma2 == IF k \in {NaN, Undef} THEN NaN
                     ELSE IF k = Inf THEN (IF h = 0 THEN NaN ELSE Inf)
                     ELSE ((ktanh \div 1000) * GRAVITY * 10
                             + ((ktanh % 1000) * GRAVITY) \div 100) \div 100
       IN (CHOOSE out \in {
            LET T == jsDiv(TwoPi, sigma, 1000)
            IN [k |-> k, L |-> L, T |-> T, C |-> jsDiv(L, T, 100000)]
            : sigma \in {mathSqrt(sigma2)} } : TRUE)
       : tanh_kh \in {mathTanh((Abs(k) * h) \div 100)} } : TRUE)

\* solveDispersion(h, T)
solveDispersion(h, T) ==
  (CHOOSE out \in {
    LET L == jsDiv(TwoPi, k, 10)
    IN [k |-> k, L |-> L, T |-> T, C |-> jsDiv(L, T, 100000)]
    : k \in {solveWaveNumber(h, T)} } : TRUE)

(***************************************************************************)
(* Terrain model (waveRefraction.ts)                                       *)
(***************************************************************************)
\* coastlineBaselineRatio ?? 0.15, in 1e-3
baselineRatioOf(config) ==
  IF config.coastlineBaselineRatio = Undef THEN 150 ELSE config.coastlineBaselineRatio

\* Math.exp(-0.5 * Math.pow((x - center) / sigma, 2)) in 1e-3
gaussian(x, center, sigma) ==
  (CHOOSE out \in {
    mathExpNeg(((z * z) \div 1000) \div 2)
    : z \in {Quot((x - center) * 1000, sigma)} } : TRUE)

\* bayScale * bayDepth * exp(...), in dm
bayEffect(x, config) ==
  LET bayCenter == (28 * config.width) \div 100
      baySigma  == (5 * config.width) \div 100
  IN Quot(26 * config.bayDepth * gaussian(x, bayCenter, baySigma), 10000)

\* capeScale * capeExtension * exp(...), in dm
capeEffect(x, config) ==
  LET capeCenter == (68 * config.width) \div 100
      capeSigma  == (10 * config.width) \div 100
  IN Quot(11 * config.capeExtension * gaussian(x, capeCenter, capeSigma), 10000)

\* rawY of coastlineFunction: the coastline height before clamping
rawCoastlineY(x, config) ==
  Quot(baselineRatioOf(config) * config.height, 1000)
    - bayEffect(x, config) + capeEffect(x, config)

\* coastlineFunction returning rawY, without the final clamp
coastlineFunction_unclamped(x, config) == rawCoastlineY(x, config)

\* coastlineFunction(x, config)
coastlineFunction(x, config) ==
  LET minY == (2 * config.height) \div 100
      maxY == (6 * config.height) \div 10
  IN mathMax(minY, mathMin(rawCoastlineY(x, config), maxY))

\* generateCoastline(config, samples): samples + 1 points, indexed from 0
generateCoastline(config, samples) ==
  Computed([i \in 0..samples |->
     LET x == (i * config.width) \div samples
     IN [x |-> x, y |-> coastlineFunction(x, config)]])

\* generateTerrain(config): grid[j][i], row 0 nearest the coast
generateTerrain(config) ==
  Computed(
    [j \in 0..(config.gridY - 1) |->
       [i \in 0..(config.gridX - 1) |->
          \* x = i * dx, y = j * dy with dx = width / (gridX - 1),
          \* dy = height / (gridY - 1)
          LET x == (i * config.width) \div (config.gridX - 1)
              y == (j * config.height) \div (config.gridY - 1)
          IN (CHOOSE out \in {
               [x |-> x, y |-> y,
                h |-> IF y <= coastlineY THEN 0
                      ELSE ((y - coastlineY) * config.slope) \div 100,
                k |-> 0, c |-> 0, alpha |-> 0]
               : coastlineY \in {coastlineFunction(x, config)} } : TRUE)]])

\* grid.length, grid[0].length
Len2(grid) == Cardinality(DOMAIN grid)
Width2(grid) == Cardinality(DOMAIN grid[0])

\* the depth threshold 0.1 m of the wet test, in mm
WetDepth == 100

\* updateWaveNumbers(grid, T)
updateWaveNumbers(grid, T) ==
  LET sigma == angularFrequency(T)
  IN Computed(
       [j \in DOMAIN grid |->
          [i \in DOMAIN grid[j] |->
             LET point == grid[j][i]
             IN IF jsGt(point.h, WetDepth)
                THEN (CHOOSE out \in {
                       [point EXCEPT !.k = k, !.c = jsDiv(sigma, k, 1000)]
                       : k \in {solveWaveNumber(point.h, T)} } : TRUE)
                ELSE [point EXCEPT !.k = 0, !.c = 0]]])

(***************************************************************************)
(* Direction field, per-column Snell mode (waveRefraction.ts)              *)
(***************************************************************************)
\* the clamp 0.999 of the asin argument, in 1e-3
RatioClamp == 999
\* Math.PI / 2 - 0.01 in milliradians
FallbackAngle == 1561

isWet(point) == jsGt(point.h, WetDepth) /\ jsGt(point.k, 0)

RECURSIVE firstWetRow(_, _, _)
\* the row found by the scan "for (j = gridY - 1; j >= 0; j--)" of column i
\* started at row j: the first wet row, or -1 when the column has none
firstWetRow(grid, i, j) ==
  IF j < 0 THEN -1
  ELSE IF isWet(grid[j][i]) THEN j
  ELSE firstWetRow(grid, i, j - 1)

\* snellConstants[i] after the first loop of updateWaveDirections
snellConstant(grid, sigma, alpha0, i) ==
  LET gridY == Len2(grid)
      j     == firstWetRow(grid, i, gridY - 1)
  IN IF j < 0 THEN 0
     ELSE jsMul(jsDiv(sigma, grid[j][i].k, 1000), mathSin(alpha0), 1000)

\* the second loop without the clamp of the ratio to [-0.999, 0.999]
snellAlpha_unclamped(point, sigma, snellConstantOfColumn) ==
  LET c      == jsDiv(sigma, point.k, 1000)
      ratio  == jsDiv(snellConstantOfColumn, c, 1000)
      sign   == IF jsGe(ratio, 0) THEN 1 ELSE -1
      alpha1 == mathAsin(ratio)
      alpha2 == IF alpha1 = NaN THEN sign * FallbackAngle ELSE alpha1
  IN IF snellConstantOfColumn = 0 THEN 0
     ELSE IF jsLe(mathCos(alpha2), 0) THEN sign * FallbackAngle
     ELSE alpha2

\* the second loop with the ratio taken as -snell / c
snellAlpha_mirrored(point, sigma, snellConstantOfColumn) ==
  (CHOOSE out \in {
    LET c      == jsDiv(sigma, point.k, 1000)
        ratio0 == jsDiv(IF IsNum(snell) THEN -snell ELSE snell, c, 1000)
        sign   == IF jsGe(ratio0, 0) THEN 1 ELSE -1
        ratio  == mathMin(RatioClamp, mathMax(-RatioClamp, ratio0))
    IN (CHOOSE out \in {
         LET alpha2   == IF alpha1 = NaN THEN sign * FallbackAngle ELSE alpha1
             cosAlpha == mathCos(alpha2)
         IN IF snell = 0 THEN 0
            ELSE IF jsLe(cosAlpha, 0) THEN sign * FallbackAngle
            ELSE alpha2
         : alpha1 \in {mathAsin(ratio)} } : TRUE)
    : snell \in {snellConstantOfColumn} } : TRUE)

\* the alpha written to a wet cell by the second loop of updateWaveDirections
snellAlpha(point, sigma, snellConstantOfColumn) ==
  (CHOOSE out \in {
    LET c      == jsDiv(sigma, point.k, 1000)
        ratio0 == jsDiv(snell, c, 1000)
        sign   == IF jsGe(ratio0, 0) THEN 1 ELSE -1
        ratio  == mathMin(RatioClamp, mathMax(-RatioClamp, ratio0))
    IN (CHOOSE out \in {
         LET alpha2   == IF alpha1 = NaN THEN sign * FallbackAngle ELSE alpha1
             cosAlpha == mathCos(alpha2)
         IN IF snell = 0 THEN 0
            ELSE IF jsLe(cosAlpha, 0) THEN sign * FallbackAngle
            ELSE alpha2
         : alpha1 \in {mathAsin(ratio)} } : TRUE)
    : snell \in {snellConstantOfColumn} } : TRUE)

\* updateWaveDirections without "point.alpha = alpha0" in its first loop
updateWaveDirections_noBoundary(grid, T, alpha0) ==
  LET sigma == angularFrequency(T)
      gridY == Len2(grid)
  IN Computed(
       [j \in DOMAIN grid |->
          [i \in DOMAIN grid[j] |->
             LET point == grid[j][i]
             IN IF j = gridY - 1 THEN point
                ELSE IF jsLe(point.h, WetDepth) \/ jsLe(point.k, 0)
                     THEN [point EXCEPT !.alpha = 0]
                     ELSE [point EXCEPT !.alpha =
                             snellAlpha(point, sigma, snellConstant(grid, sigma, alpha0, i))]]])

\* updateWaveDirections(grid, T, alpha0)
updateWaveDirections(grid, T, alpha0) ==
  LET sigma == angularFrequency(T)
      gridY == Len2(grid)
  IN Computed(
       [j \in DOMAIN grid |->
          [i \in DOMAIN grid[j] |->
             LET point == grid[j][i]
             IN IF j = gridY - 1
                THEN (IF firstWetRow(grid, i, gridY - 1) = j
                      THEN [point EXCEPT !.alpha = alpha0] ELSE point)
                ELSE IF jsLe(point.h, WetDepth) \/ jsLe(point.k, 0)
                     THEN [point EXCEPT !.alpha = 0]
                     ELSE [point EXCEPT !.alpha =
                             snellAlpha(point, sigma, snellConstant(grid, sigma, alpha0, i))]]])

(***************************************************************************)
(* Direction field, finite-difference mode (waveRefraction.ts)             *)
(***************************************************************************)
jsAdd(a, b) == IF ~IsNum(a) \/ ~IsNum(b) THEN NaN ELSE a + b
jsSub(a, b) == IF ~IsNum(a) \/ ~IsNum(b) THEN NaN ELSE a - b

\* the iterations of the relaxation loop
FdmIterations == 10
\* the residual threshold 1e-6, in 1e-7
FdmResidualEps == 10

RECURSIVE fdmRelax(_, _, _)
\* the loop "for (iter = 0; iter < 10; iter++)": alpha in 1e-7 rad,
\* residual in 1e-7
fdmRelax(alpha, residual, iter) ==
  IF iter >= FdmIterations THEN alpha
  ELSE IF residual = NaN THEN fdmRelax(alpha, residual, iter + 1)
  ELSE IF Abs(residual) > FdmResidualEps
       THEN (CHOOSE out \in {
              fdmRelax(relaxed, residual, iter + 1)
              : relaxed \in {jsSub(alpha, Quot(residual, 10))} } : TRUE)
       ELSE fdmRelax(alpha, residual, iter + 1)

\* the alpha written to the wet cell (j, i) from the current grid contents
fdmAlpha(grid, j, i, alpha0) ==
  LET gridY == Len2(grid)
      gridX == Width2(grid)
      dx == grid[0][1].x - grid[0][0].x
      dy == grid[1][0].y - grid[0][0].y
      k_cos_up    == IF j + 1 < gridY
                     THEN jsMul(grid[j + 1][i].k, mathCos(grid[j + 1][i].alpha), 1) ELSE 0
      k_cos_down  == IF j - 1 >= 0
                     THEN jsMul(grid[j - 1][i].k, mathCos(grid[j - 1][i].alpha), 1) ELSE 0
      k_sin_right == IF i + 1 < gridX
                     THEN jsMul(grid[j][i + 1].k, mathSin(grid[j][i + 1].alpha), 1) ELSE 0
      k_sin_left  == IF i - 1 >= 0
                     THEN jsMul(grid[j][i - 1].k, mathSin(grid[j][i - 1].alpha), 1) ELSE 0
      d_kcos_dy == jsDiv(jsSub(k_cos_up, k_cos_down), 2 * dy, 10)
      d_ksin_dx == jsDiv(jsSub(k_sin_right, k_sin_left), 2 * dx, 10)
      start     == IF j + 1 < gridY THEN grid[j + 1][i].alpha ELSE alpha0
  IN (CHOOSE out \in {
     (CHOOSE out \in {
       LET alpha == IF relaxed = NaN THEN NaN ELSE Quot(relaxed, 10000)
       IN mathMax(-HalfPiMrad, mathMin(HalfPiMrad, alpha))
       : relaxed \in {fdmRelax(jsMul(start, 10000, 1), residual, 0)} } : TRUE)
     : residual \in {jsAdd(d_kcos_dy, d_ksin_dx)} } : TRUE)

RECURSIVE fdmMarch(_, _, _, _)
\* the two nested loops of updateWaveDirectionsFDM from cell (j, i) on:
\* rows from gridY - 2 down to 0, columns from 0 up, each cell written in
\* place before the next one is computed
fdmMarch(grid, j, i, alpha0) ==
  IF j < 0 THEN grid
  ELSE IF i >= Width2(grid) THEN fdmMarch(grid, j - 1, 0, alpha0)
  ELSE LET point == grid[j][i]
           alpha == IF jsLe(point.h, WetDepth) \/ jsLe(point.k, 0) THEN 0
                    ELSE fdmAlpha(grid, j, i, alpha0)
       IN (CHOOSE out \in {
            fdmMarch(written, j, i + 1, alpha0)
            : written \in {Computed([grid EXCEPT ![j][i].alpha = alpha])} } : TRUE)

\* updateWaveDirectionsFDM(grid, T, alpha0)
updateWaveDirectionsFDM(grid, T, alpha0) ==
  LET gridY == Len2(grid)
  IN (CHOOSE out \in {
       fdmMarch(boundary, gridY - 2, 0, alpha0)
       : boundary \in {Computed([grid EXCEPT ![gridY - 1] =
             [i \in DOMAIN grid[gridY - 1] |->
                [grid[gridY - 1][i] EXCEPT !.alpha = alpha0]]])} } : TRUE)

(***************************************************************************)
(* generateDepthContours (waveRefraction.ts)                               *)
(***************************************************************************)
\* the default targetDepths, in m
TargetDepths == <<5, 10, 15, 20, 25, 30>>

\* a 0-indexed array as a sequence
AsSeq(arr) == Computed([n \in 1..Cardinality(DOMAIN arr) |-> arr[n - 1]])

\* the points of the contour of one depth: y + depth / slope where that is
\* inside the domain
contourPoints(config, coastlineArr, depth) ==
  LET shifted == [n \in 1..Cardinality(DOMAIN coastlineArr) |->
                    [x |-> coastlineArr[n - 1].x,
                     y |-> coastlineArr[n - 1].y + Quot(depth * 100000, config.slope)]]
  IN SelectSeq(shifted, LAMBDA pt : pt.y <= config.height)

\* generateDepthContours(config, coastline)
generateDepthContours(config, coastlineArr) ==
  LET all == [d \in 1..Len(TargetDepths) |->
                [depth |-> TargetDepths[d],
                 points |-> contourPoints(config, coastlineArr, TargetDepths[d])]]
  IN SelectSeq(all, LAMBDA ct : Len(ct.points) > 1)

(***************************************************************************)
(* useWaveRefractionModel (useWaveRefractionModel.ts)                      *)
(***************************************************************************)
\* a property the caller's object does not have
Absent == 1999999996

ConfigFields == {"domainWidth", "domainHeight", "gridX", "gridY", "h", "T", "L",
                 "H", "slope", "bayDepth", "bayWidth", "capeExtension",
                 "capeWidth", "alpha0"}

\* a dependency list that leaves out config.alpha0
MemoDeps_withoutAlpha0 ==
  <<"domainWidth", "domainHeight", "gridX", "gridY", "h", "T", "L",
    "H", "slope", "bayDepth", "bayWidth", "capeExtension", "capeWidth">>

\* the dependency list of the useMemo call, in its order
MemoDeps == <<"domainWidth", "domainHeight", "gridX", "gridY", "h", "T", "L",
              "H", "slope", "bayDepth", "bayWidth", "capeExtension",
              "capeWidth", "alpha0">>

\* the grid resolution and coastline sampling the model runs the hook with
\* (80 x 60 cells and 300 samples in the source)
HookGridX == 3
HookGridY == 3
HookSamples == 4

\* DEFAULT_CONFIG: lengths in dm, h in mm, T in ms, H in mm, slope in 1e-4,
\* alpha0 in degrees; it has no L
DEFAULT_CONFIG ==
  [domainWidth |-> 10000, domainHeight |-> 8000, gridX |-> HookGridX,
   gridY |-> HookGridY, h |-> 20000, T |-> 8000, L |-> Absent, H |-> 2000,
   slope |-> 100, bayDepth |-> 100, bayWidth |-> 1000, capeExtension |-> 500,
   capeWidth |-> 2000, alpha0 |-> 0]

\* { ...DEFAULT_CONFIG, ...userConfig }: an own property of userConfig wins
\* even when its value is undefined; reading a missing property gives
\* undefined
mergeConfig(userConfig) ==
  [f \in ConfigFields |->
     IF userConfig[f] # Absent THEN userConfig[f]
     ELSE IF DEFAULT_CONFIG[f] # Absent THEN DEFAULT_CONFIG[f]
     ELSE Undef]

\* the truthiness of a number or undefined
truthy(v) == v \notin {Undef, NaN, 0}

\* config.alpha0 * Math.PI / 180, degrees to milliradians
degToRad(deg) == IF ~IsNum(deg) THEN NaN ELSE Quot(deg * 31416, 1800)

\* the TerrainConfig object the hook builds (bayWidth and capeWidth are
\* carried but read by no terrain function; coastlineBaselineRatio is not set)
terrainConfigOf(cfg) ==
  [width |-> cfg.domainWidth, height |-> cfg.domainHeight, gridX |-> cfg.gridX,
   gridY |-> cfg.gridY, slope |-> cfg.slope, bayDepth |-> cfg.bayDepth,
   bayWidth |-> cfg.bayWidth, capeExtension |-> cfg.capeExtension,
   capeWidth |-> cfg.capeWidth, coastlineBaselineRatio |-> Undef]

\* a call of an engine function: its name and the values its first
\* parameters are bound to (Absent: the function has no such parameter)
Call(fn, a1, a2, a3) == [fn |-> fn, a1 |-> a1, a2 |-> a2, a3 |-> a3]

NoDispersion == [k |-> Undef, L |-> Undef, T |-> Undef, C |-> Undef]
NoResult == [grid |-> <<>>, coastline |-> <<>>, contours |-> <<>>,
             dispersion |-> NoDispersion]


\* the callback with steps 3 and 4 exchanged: the direction pass runs on the
\* grid of generateTerrain, updateWaveNumbers after it
computeStages_directionsFirst(cfg, byPeriod, dispersion) ==
  LET tc         == terrainConfigOf(cfg)
      alpha0_rad == degToRad(cfg.alpha0)
  IN The({ [threw |-> FALSE,
            calls |-> << IF byPeriod THEN Call("solveDispersion", cfg.h, cfg.T, Absent)
                         ELSE Call("solveFromWavelength", cfg.h, cfg.L, Absent),
                         Call("generateCoastline", Absent, Absent, Absent),
                         Call("generateDepthContours", Absent, Absent, Absent),
                         Call("generateTerrain", Absent, Absent, Absent),
                         Call("updateWaveDirections", alpha0_rad, Undef, Absent),
                         Call("updateWaveNumbers", dispersion.T, Absent, Absent) >>,
            result |-> [grid |-> updateWaveNumbers(grid1, dispersion.T),
                        coastline |-> coast,
                        contours |-> generateDepthContours(tc, coast),
                        dispersion |-> dispersion]] :
             coast \in {generateCoastline(tc, HookSamples)},
             grid1 \in {updateWaveDirections(generateTerrain(tc), alpha0_rad, Undef)} })

\* steps 2 to 4 of the callback of useMemo, after the dispersion is solved
computeStages(cfg, byPeriod, dispersion) ==
  LET tc         == terrainConfigOf(cfg)
      alpha0_rad == degToRad(cfg.alpha0)
  IN The({ [threw |-> FALSE,
            calls |-> << IF byPeriod THEN Call("solveDispersion", cfg.h, cfg.T, Absent)
                         ELSE Call("solveFromWavelength", cfg.h, cfg.L, Absent),
                         Call("generateCoastline", Absent, Absent, Absent),
                         Call("generateDepthContours", Absent, Absent, Absent),
                         Call("generateTerrain", Absent, Absent, Absent),
                         Call("updateWaveNumbers", dispersion.T, Absent, Absent),
                         Call("updateWaveDirections", alpha0_rad, Undef, Absent) >>,
            \* updateWaveDirections(grid, alpha0_rad): the second argument
            \* is bound to the parameter T, the parameter alpha0 is undefined
            result |-> [grid |-> updateWaveDirections(grid1, alpha0_rad, Undef),
                        coastline |-> coast,
                        contours |-> generateDepthContours(tc, coast),
                        dispersion |-> dispersion]] :
             coast \in {generateCoastline(tc, HookSamples)},
             grid1 \in {updateWaveNumbers(generateTerrain(tc), dispersion.T)} })

\* the callback of useMemo run on the merged config: whether it threw, the
\* engine calls it made in order and the ModelResult it returned
computeModel(cfg) ==
  IF truthy(cfg.T)
  THEN The({ computeStages(cfg, TRUE, d) : d \in {solveDispersion(cfg.h, cfg.T)} })
  ELSE IF truthy(cfg.L)
  THEN The({ computeStages(cfg, FALSE, d) : d \in {solveFromWavelength(cfg.h, cfg.L)} })
  ELSE [threw |-> TRUE, calls |-> <<>>, result |-> NoResult]

\* the values of the useMemo dependencies
depsOf(cfg) == [n \in 1..Len(MemoDeps) |-> cfg[MemoDeps[n]]]

(***************************************************************************)
(* WaveRefractionView: coastal features, sampling and the ray tracer       *)
(* (WaveRefractionView.tsx is the "current" view, the earlier revision of  *)
(* the same component the "older" one)                                     *)
(***************************************************************************)
\* coastline.length of a coastline indexed from 0
coastLength(coast) == Cardinality(DOMAIN coast)

\* coastlineStep = coastline.length > 1 ? coastline[1].x - coastline[0].x : 1
coastlineStep(coast) ==
  IF coastLength(coast) > 1 THEN coast[1].x - coast[0].x ELSE 10

\* curvatures[idx] times coastlineStep^2: the second difference of y, 0 at
\* both ends
curvatureAt(coast, idx) ==
  IF idx = 0 \/ idx = coastLength(coast) - 1 THEN 0
  ELSE coast[idx + 1].y - 2 * coast[idx].y + coast[idx - 1].y

RECURSIVE maxAbsCurvatureFrom(_, _)
\* the reduce over curvatures[idx..] of Math.max(max, Math.abs(value))
maxAbsCurvatureFrom(coast, idx) ==
  IF idx >= coastLength(coast) THEN 0
  ELSE LET rest == maxAbsCurvatureFrom(coast, idx + 1)
           a    == Abs(curvatureAt(coast, idx))
       IN IF a >= rest THEN a ELSE rest

\* Math.sign
mathSign(v) == IF v > 0 THEN 1 ELSE IF v < 0 THEN -1 ELSE 0

RECURSIVE growRun(_, _, _, _)
\* segmentEnd after the inner while loop started with segmentEnd = e:
\* it advances while the curvature keeps the sign and is at least
\* threshold * 0.4 = 0.072 * maxAbsCurvature
growRun(coast, maxAbs, sign, e) ==
  IF /\ e < coastLength(coast) - 1
     /\ mathSign(curvatureAt(coast, e)) = sign
     /\ 1000 * Abs(curvatureAt(coast, e)) >= 72 * maxAbs
  THEN growRun(coast, maxAbs, sign, e + 1)
  ELSE e

RECURSIVE runWeightedSum(_, _, _)
\* weightedSum over the samples a..b-1 of a run
runWeightedSum(coast, a, b) ==
  IF a >= b THEN 0
  ELSE coast[a].x * Abs(curvatureAt(coast, a)) + runWeightedSum(coast, a + 1, b)

RECURSIVE runWeightTotal(_, _, _)
\* weightTotal over the samples a..b-1 of a run
runWeightTotal(coast, a, b) ==
  IF a >= b THEN 0
  ELSE Abs(curvatureAt(coast, a)) + runWeightTotal(coast, a + 1, b)

RECURSIVE runPeak(_, _, _, _)
\* peakStrength over the samples a..b-1 of a run, starting from peak
runPeak(coast, a, b, peak) ==
  IF a >= b THEN peak
  ELSE runPeak(coast, a + 1, b,
               IF Abs(curvatureAt(coast, a)) >= peak
               THEN Abs(curvatureAt(coast, a)) ELSE peak)

\* the feature of a run with the bandwidth taken from the span alone,
\* without the minimum of eight steps
featureOfRun_noMinBandwidth(coast, maxAbs, segmentStart, segmentEnd) ==
  LET n           == coastLength(coast)
      step        == coastlineStep(coast)
      sign        == mathSign(curvatureAt(coast, segmentStart))
      weightedSum == runWeightedSum(coast, segmentStart, segmentEnd)
      weightTotal == runWeightTotal(coast, segmentStart, segmentEnd)
      peak        == runPeak(coast, segmentStart, segmentEnd,
                             Abs(curvatureAt(coast, segmentStart)))
      defaultIdx  == (segmentStart + segmentEnd + 1) \div 2
      span        == mathMax(2, segmentEnd - segmentStart + 1)
      sqrtSpan    == sqrtSearch(span * 1000000, 0, 46000)
  IN [type |-> IF sign > 0 THEN "bay" ELSE "cape",
      x |-> IF weightTotal > 0 THEN Quot(weightedSum, weightTotal)
            ELSE coast[mathMax(0, mathMin(n - 1, defaultIdx))].x,
      strength |-> Quot(peak * 1000, maxAbs),
      bandwidth |-> Quot(sqrtSpan * step * 16, 10000),
      first |-> segmentStart, last |-> segmentEnd]

\* the feature pushed for the run segmentStart..segmentEnd: x and bandwidth
\* in dm, strength in 1e-3
featureOfRun(coast, maxAbs, segmentStart, segmentEnd) ==
  LET n           == coastLength(coast)
      step        == coastlineStep(coast)
      sign        == mathSign(curvatureAt(coast, segmentStart))
      weightedSum == runWeightedSum(coast, segmentStart, segmentEnd)
      weightTotal == runWeightTotal(coast, segmentStart, segmentEnd)
      peak        == runPeak(coast, segmentStart, segmentEnd,
                             Abs(curvatureAt(coast, segmentStart)))
      defaultIdx  == (segmentStart + segmentEnd + 1) \div 2
      span        == mathMax(2, segmentEnd - segmentStart + 1)
      sqrtSpan    == sqrtSearch(span * 1000000, 0, 46000)
  IN [type |-> IF sign > 0 THEN "bay" ELSE "cape",
      x |-> IF weightTotal > 0 THEN Quot(weightedSum, weightTotal)
            ELSE coast[mathMax(0, mathMin(n - 1, defaultIdx))].x,
      strength |-> Quot(peak * 1000, maxAbs),
      bandwidth |-> mathMax(step * 8, Quot(sqrtSpan * step * 16, 10000)),
      first |-> segmentStart, last |-> segmentEnd]

RECURSIVE scanFeatures(_, _, _)
\* the outer while loop of coastalFeatures from index idx: the features it
\* pushes, in order (threshold = 0.18 * maxAbsCurvature)
scanFeatures(coast, maxAbs, idx) ==
  IF idx >= coastLength(coast) - 1 THEN <<>>
  ELSE IF 100 * Abs(curvatureAt(coast, idx)) < 18 * maxAbs
       THEN scanFeatures(coast, maxAbs, idx + 1)
       ELSE LET segmentEnd == growRun(coast, maxAbs,
                                      mathSign(curvatureAt(coast, idx)), idx)
            IN <<featureOfRun(coast, maxAbs, idx, segmentEnd)>>
                 \o scanFeatures(coast, maxAbs, segmentEnd + 1)

\* coastalFeatures: none for fewer than 5 samples, a non-positive step or a
\* maximal curvature below 1e-6 / m (10 * d2 / step^2 < 1e-6 with d2 and
\* step in dm)
coastalFeatures(coast) ==
  LET step   == coastlineStep(coast)
      maxAbs == maxAbsCurvatureFrom(coast, 0)
  IN IF coastLength(coast) < 5 \/ step <= 0 THEN <<>>
     ELSE IF maxAbs < (step * step + 9999999) \div 10000000 THEN <<>>
     ELSE scanFeatures(coast, maxAbs, 1)

\* getCoastlineY(x): linear interpolation between the samples, the end
\* values outside; every comparison with NaN is false, so a NaN x falls
\* through the loop to the last sample
getCoastlineY(coast, x) ==
  LET n == coastLength(coast)
  IN IF n = 0 THEN 0
     ELSE IF jsLe(x, coast[0].x) THEN coast[0].y
     ELSE IF jsGe(x, coast[n - 1].x) THEN coast[n - 1].y
     ELSE LET hits == {idx \in 1..(n - 1) : jsLe(x, coast[idx].x)}
          IN IF hits = {} THEN coast[n - 1].y
             ELSE LET idx  == CHOOSE m \in hits : \A o \in hits : m <= o
                      prev == coast[idx - 1]
                      next == coast[idx]
                  IN prev.y + Quot((x - prev.x) * (next.y - prev.y), next.x - prev.x)

\* the value of samplePoint when it returns undefined
NoSample == [x |-> Undef, y |-> Undef, h |-> Undef, k |-> Undef, c |-> Undef,
             alpha |-> Undef]

\* Math.min(cells - 1, Math.max(0, Math.round(v / (extent / (cells - 1)))))
nearestIndex(v, extent, cells) ==
  mathMin(cells - 1, mathMax(0, (2 * v * (cells - 1) + extent) \div (2 * extent)))

\* samplePoint(x, y) of the current view: the nearest cell inside the
\* domain, a synthetic deep-water sample outside it in the upper half
samplePoint_current(view, x, y) ==
  IF jsGe(x, 0) /\ jsLe(x, view.width) /\ jsGe(y, 0) /\ jsLe(y, view.height)
  THEN view.grid[nearestIndex(y, view.height, view.gridY)]
                [nearestIndex(x, view.width, view.gridX)]
  ELSE IF jsGt(y, view.height \div 2)
       THEN [x |-> x, y |-> y, h |-> 100000, k |-> view.dispersion.k,
             c |-> view.dispersion.C, alpha |-> degToRad(view.alpha0)]
       ELSE NoSample

\* samplePoint(x, y) of the older view: undefined outside the domain; a NaN
\* coordinate passes the range test and indexes the grid with NaN
samplePoint_older(view, x, y) ==
  IF jsLt(x, 0) \/ jsGt(x, view.width) \/ jsLt(y, 0) \/ jsGt(y, view.height)
  THEN NoSample
  ELSE IF ~IsNum(x) \/ ~IsNum(y) THEN NoSample
  ELSE view.grid[nearestIndex(y, view.height, view.gridY)]
                [nearestIndex(x, view.width, view.gridX)]

samplePoint(view, x, y) ==
  IF view.version = "current" THEN samplePoint_current(view, x, y)
  ELSE samplePoint_older(view, x, y)

\* stepSize = dyPhys * 0.85, in dm
stepSizeOf(view) == (view.height * 85) \div (100 * (view.gridY - 1))

\* maxSteps = gridY * 4 (current view), gridY * 3 (older view)
maxStepsOf(view) ==
  IF view.version = "current" THEN view.gridY * 4 ELSE view.gridY * 3

\* the loop test "step < maxSteps" with <= in place of <
loopContinues_offByOne(view, step) == step <= maxStepsOf(view)

\* the loop test "step < maxSteps"
loopContinues(view, step) == step < maxStepsOf(view)

\* influenceThreshold: 0.5 (current) or 0.35 (older) of the domain height
influenceThresholdOf(view) ==
  IF view.version = "current" THEN view.height \div 2
  ELSE (35 * view.height) \div 100

\* nearShoreWeight = Math.pow(1 - normalizedDist, 4) (current), cubed
\* (older); in 1e-3
nearShoreWeight(view, distanceToCoast) ==
  LET normalizedDist == Quot(distanceToCoast * 1000, influenceThresholdOf(view))
      b  == 1000 - normalizedDist
      b2 == (b * b) \div 1000
  IN IF view.version = "current" THEN (b2 * b2) \div 1000 ELSE (b2 * b) \div 1000

\* intensityMultiplier = 0.12 + 0.08 * min(max(bayDepth, capeExtension) / 50, 2)
\* in the current view; the older view has no such factor; in 1e-3
intensityMultiplier(view) ==
  IF view.version = "current"
  THEN LET featureIntensity ==
             Quot(mathMax(view.bayDepth, view.capeExtension) * 1000, 500)
       IN 120 + (80 * mathMin(featureIntensity, 2000)) \div 1000
  ELSE 1000

\* the term one feature adds to lateralAdjustment at x, in 1e-3; 0 when
\* featureInfluence < 1e-5, that is when dx^2 / (2 variance) > ln(1e5)
featureContribution(view, feature, x) ==
  LET current    == view.version = "current"
      dxToCenter == x - feature.x
      effectiveBandwidth == IF current THEN feature.bandwidth * 2
                            ELSE feature.bandwidth
      \* Math.sqrt(variance): variance = max(100, eb^2) resp. max(4, bw^2)
      deviation  == mathMax(IF current THEN 100 ELSE 20, effectiveBandwidth)
      z          == Quot(Abs(dxToCenter) * 1000, deviation)
      exponent   == IF z > 40000 THEN 800000 ELSE (z * z) \div 2000
      featureInfluence == mathExpNeg(exponent)
      direction  == IF feature.type = "bay" THEN 1 ELSE -1
      normalizedOffset ==
        Quot(dxToCenter * 1000,
             mathMax(effectiveBandwidth, IF current THEN 300 ELSE 100))
  IN IF exponent > 11512 THEN 0
     ELSE Quot(Quot(Quot(direction * normalizedOffset * feature.strength, 1000)
                      * featureInfluence, 1000)
                 * intensityMultiplier(view), 1000)

RECURSIVE lateralAdjustmentFrom(_, _, _)
\* lateralAdjustment after coastalFeatures.forEach, from feature n on
lateralAdjustmentFrom(view, x, n) ==
  IF n > Len(view.features) THEN 0
  ELSE featureContribution(view, view.features[n], x)
         + lateralAdjustmentFrom(view, x, n + 1)

\* whether the lateral adjustment is computed at this distance
inInfluenceZone(view, distanceToCoast) ==
  /\ distanceToCoast > 0
  /\ distanceToCoast < influenceThresholdOf(view)
  /\ Len(view.features) > 0

\* maxShift: stepSize * (0.05 + 0.2 * distRatio^2) (current), stepSize * 0.75
\* (older); in dm
maxShiftOf(view, distanceToCoast) ==
  LET stepSize == stepSizeOf(view)
  IN IF view.version = "current"
     THEN LET distRatio == mathMax(0, 1000 - Quot(distanceToCoast * 1000,
                                                  (3 * view.height) \div 10))
              square    == (distRatio * distRatio) \div 1000
          IN (stepSize * (50 + (200 * square) \div 1000)) \div 1000
     ELSE (stepSize * 75) \div 100

\* the displacement of one step from (x, y) with the sampled alpha:
\* dxStep, the lateral term added to it, the clamped adjustedDx and dyStep
rayAdvance(view, x, y, alpha) ==
  LET stepSize == stepSizeOf(view)
      dxStep   == jsMul(mathSin(alpha), stepSize, 1000)
      dyStep   == jsMul(mathCos(alpha), stepSize, 1000)
      coastlineY      == getCoastlineY(view.coastline, x)
      distanceToCoast == mathMax(0, y - coastlineY)
      lateralAdjustment ==
        IF inInfluenceZone(view, distanceToCoast)
        THEN lateralAdjustmentFrom(view, x, 1) ELSE 0
      tuning   == IF view.version = "current" THEN (stepSize * 15) \div 100
                  ELSE (stepSize * 65) \div 100
      lateral  == IF lateralAdjustment = 0 THEN 0
                  ELSE Quot(Quot(lateralAdjustment
                                   * nearShoreWeight(view, distanceToCoast), 1000)
                              * tuning, 1000)
      maxShift == maxShiftOf(view, distanceToCoast)
  IN [dxStep |-> dxStep, dyStep |-> dyStep,
      distanceToCoast |-> distanceToCoast,
      zone |-> inInfluenceZone(view, distanceToCoast),
      lateralAdjustment |-> lateralAdjustment,
      maxShift |-> maxShift,
      adjustedDx |-> mathMax(-maxShift, mathMin(maxShift, jsAdd(dxStep, lateral)))]

\* the point pushed when the ray stops: { x: clampX, y: coastY }
coastPointAt(view, x) ==
  LET clampX == mathMax(0, mathMin(view.width, x))
  IN [x |-> clampX, y |-> getCoastlineY(view.coastline, clampX)]

\* whether the loop body of the current view records the current point
inRecordedRange(view, x, y) ==
  /\ jsGe(x, -(view.width \div 10)) /\ jsLe(x, (11 * view.width) \div 10)
  /\ jsGe(y, 0) /\ jsLe(y, (11 * view.height) \div 10)

\* whether the ray leaves after a step: "currentY < 0" (current),
\* "currentX < 0 || currentX > domainWidth || currentY < 0" (older)
leavesDomain(view, x, y) ==
  IF view.version = "current" THEN jsLt(y, 0)
  ELSE jsLt(x, 0) \/ jsGt(x, view.width) \/ jsLt(y, 0)

\* one execution of the body of the for loop of traceRayFromDeep on the
\* loop state r: position, path, loop counter and whether a break was taken
traceRayBody(view, r) ==
  LET sample == samplePoint(view, r.x, r.y)
  IN IF sample = NoSample \/ jsLe(sample.h, WetDepth)
     THEN [r EXCEPT !.path = IF view.version = "current" /\ ~jsLt(r.y, view.height \div 2)
                              THEN @ ELSE Append(@, coastPointAt(view, r.x)),
                    !.broke = TRUE,
                    !.iterations = @ + 1]
     ELSE LET path1 == IF view.version = "current" /\ ~inRecordedRange(view, r.x, r.y)
                       THEN r.path ELSE Append(r.path, [x |-> r.x, y |-> r.y])
              adv   == rayAdvance(view, r.x, r.y, sample.alpha)
              x1    == jsAdd(r.x, adv.adjustedDx)
              y1    == jsSub(r.y, adv.dyStep)
          IN IF leavesDomain(view, x1, y1)
             THEN [r EXCEPT !.x = x1, !.y = y1,
                            !.path = Append(path1, coastPointAt(view, x1)),
                            !.broke = TRUE, !.iterations = @ + 1]
             ELSE [r EXCEPT !.x = x1, !.y = y1, !.path = path1,
                            !.step = @ + 1, !.iterations = @ + 1]

\* the statements after the loop: a path of fewer than 2 points gets the
\* coastline point at currentX (the current view only when
\* currentY < domainHeight)
traceRayReturn(view, r) ==
  IF Len(r.path) < 2 /\ (view.version = "older" \/ jsLt(r.y, view.height))
  THEN Append(r.path, [x |-> r.x, y |-> getCoastlineY(view.coastline, r.x)])
  ELSE r.path

\* the same loop run from the first point: each point with the length of the
\* path from the first point to it
attachDistanceToCoast_fromStart(path) ==
  LET accum[i \in 1..Len(path)] ==
        IF i = 1 THEN 0
        ELSE LET dx == jsSub(path[i].x, path[i - 1].x)
                 dy == jsSub(path[i].y, path[i - 1].y)
             IN IF ~IsNum(dx) \/ ~IsNum(dy) THEN NaN
                ELSE jsAdd(accum[i - 1], sqrtSearch(dx * dx + dy * dy, 0, 46340))
  IN Computed([i \in 1..Len(path) |->
                 [x |-> path[i].x, y |-> path[i].y, distToCoast |-> accum[i]]])

\* attachDistanceToCoast(path): the points of the path, each with the length
\* of the path from it to the last point (Math.hypot per segment, in dm)
attachDistanceToCoast(path) ==
  LET accum[i \in 1..Len(path)] ==
        IF i = Len(path) THEN 0
        ELSE LET dx == jsSub(path[i + 1].x, path[i].x)
                 dy == jsSub(path[i + 1].y, path[i].y)
             IN IF ~IsNum(dx) \/ ~IsNum(dy) THEN NaN
                ELSE jsAdd(accum[i + 1], sqrtSearch(dx * dx + dy * dy, 0, 46340))
  IN Computed([i \in 1..Len(path) |->
                 [x |-> path[i].x, y |-> path[i].y, distToCoast |-> accum[i]]])

\* the start point of ray number n of rayCount in the current view
launchPoint_current(view, n, rayCount) ==
  LET alpha0_rad    == degToRad(view.alpha0)
      tanAlpha      == jsDiv(mathSin(alpha0_rad), mathCos(alpha0_rad), 1000)
      offset        == Quot(view.height * tanAlpha, 1000)
      effectiveMinX == mathMin(0, -offset)
      effectiveMaxX == mathMax(view.width, view.width - offset)
      margin        == view.width \div 10
      startRangeMin == effectiveMinX - margin
      startRangeMax == effectiveMaxX + margin
  IN [x |-> startRangeMin + Quot(n * (startRangeMax - startRangeMin), rayCount - 1),
      y |-> view.height]

\* the start index of ray number n of rayCount in the older view
launchIndex_older(view, n, rayCount) ==
  mathMin(view.gridX - 1,
          mathMax(0, ((2 * n + 1) * (view.gridX - 1) + rayCount) \div (2 * rayCount)))

RECURSIVE traceRayLoop(_, _)
\* the for loop of traceRayFromDeep from the loop state r until a break or
\* the step cap
traceRayLoop(view, r) ==
  IF r.broke \/ ~loopContinues(view, r.step) THEN r
  ELSE (CHOOSE out \in { traceRayLoop(view, next) :
                           next \in {traceRayBody(view, r)} } : TRUE)

\* the path traceRayFromDeep returns for ray number n of rayCount
traceRayFromDeep(view, n, rayCount) ==
  LET blank == [phase |-> "loop", x |-> 0, y |-> 0, step |-> 0, path |-> <<>>,
                broke |-> FALSE, iterations |-> 0]
  IN IF view.version = "current"
     THEN (CHOOSE out \in { traceRayReturn(view, r) :
             r \in {traceRayLoop(view, [blank EXCEPT !.x = start.x, !.y = start.y]) :
                      start \in {launchPoint_current(view, n, rayCount)}} } : TRUE)
     ELSE (CHOOSE out \in {
             IF jsLe(topPoint.h, 50) THEN <<>>
             ELSE (CHOOSE path \in { traceRayReturn(view, r) :
                     r \in {traceRayLoop(view, [blank EXCEPT !.x = topPoint.x,
                                                             !.y = topPoint.y])} } : TRUE)
             : topPoint \in {view.grid[view.gridY - 1]
                                      [launchIndex_older(view, n, rayCount)]} } : TRUE)

\* rayPaths after the loop over the rays: the measured paths of more than
\* two points (in the current view: with a point inside the domain), in the
\* order of the rays
rayPathsOf(view, rayCount) ==
  LET isVisible(path) ==
        \E n \in 1..Len(path) :
          /\ jsGe(path[n].x, 0) /\ jsLe(path[n].x, view.width)
          /\ jsGe(path[n].y, 0) /\ jsLe(path[n].y, view.height)
      kept(path) == Len(path) > 2 /\ (view.version = "current" => isVisible(path))
      RECURSIVE pushed(_, _)
      pushed(paths, n) ==
        IF n > rayCount THEN <<>>
        ELSE IF kept(paths[n])
             THEN <<attachDistanceToCoast(paths[n])>> \o pushed(paths, n + 1)
             ELSE pushed(paths, n + 1)
  IN (CHOOSE out \in {
        Computed(pushed(paths, 1))
        : paths \in {Computed([n \in 1..rayCount |->
                                 traceRayFromDeep(view, n - 1, rayCount)])} } : TRUE)

\* const desiredWavefronts = 6
desiredWavefronts == 6

\* the callback without the test of the ray's length, interpolating on the
\* first segment that ends within the target distance
wavefrontPoint_anyRay(view, path, targetDistance) ==
  LET hits == { i \in 1..(Len(path) - 1) :
                  jsLe(path[i + 1].distToCoast, targetDistance) }
  IN IF hits = {} THEN <<>>
     ELSE LET i     == CHOOSE m \in hits : \A o \in hits : m <= o
              curr  == path[i]
              next  == path[i + 1]
              denom == curr.distToCoast - next.distToCoast
              ratio == IF denom > 0
                       THEN Quot((curr.distToCoast - targetDistance) * 1000, denom)
                       ELSE 0
              x     == curr.x + Quot((next.x - curr.x) * ratio, 1000)
              y     == curr.y + Quot((next.y - curr.y) * ratio, 1000)
          IN <<[x |-> x, y |-> y, coastY |-> getCoastlineY(view.coastline, x),
                segment |-> i, ratio |-> ratio, divided |-> denom > 0]>>

\* the callback of rayPaths.forEach in the wavefront loop on one path: the
\* points it pushes onto rawPoints, each with the index of the segment it
\* was interpolated on, the ratio (in 1e-3) and whether the ratio was
\* obtained by a division; denom > 1e-6 is denom > 0 on whole decimetres
wavefrontPoint(view, path, targetDistance) ==
  IF jsLt(path[1].distToCoast, targetDistance) THEN <<>>
  ELSE LET hits == { i \in 1..(Len(path) - 1) :
                       /\ jsGe(path[i].distToCoast, targetDistance)
                       /\ jsLe(path[i + 1].distToCoast, targetDistance) }
       IN IF hits = {} THEN <<>>
          ELSE LET i     == CHOOSE m \in hits : \A o \in hits : m <= o
                   curr  == path[i]
                   next  == path[i + 1]
                   denom == curr.distToCoast - next.distToCoast
                   ratio == IF denom > 0
                            THEN Quot((curr.distToCoast - targetDistance) * 1000, denom)
                            ELSE 0
                   x     == curr.x + Quot((next.x - curr.x) * ratio, 1000)
                   y     == curr.y + Quot((next.y - curr.y) * ratio, 1000)
               IN <<[x |-> x, y |-> y, coastY |-> getCoastlineY(view.coastline, x),
                     segment |-> i, ratio |-> ratio, divided |-> denom > 0]>>

(***************************************************************************)
(* App3: the parameter form (App3.tsx)                                     *)
(***************************************************************************)
\* The text of an input box of type "number" is the empty string, <<>>, or
\* a decimal numeral, kept as <<v>> with v its value in hundredths. params
\* holds h in mm, T in ms, L in mm and H in mm, undefined as Undef.

\* Number(strValue), in thousandths
Number(text) ==
  IF text = <<>> THEN 0
  ELSE IF IsNum(text[1]) THEN text[1] * 10
  ELSE NaN

\* String(v) of a whole number v and v.toFixed(2), v in thousandths: the
\* numeral of v rounded to hundredths
toFixed2(v) ==
  IF ~IsNum(v) THEN <<NaN>>
  ELSE IF v >= 0 THEN <<(v + 5) \div 10>> ELSE <<-((5 - v) \div 10)>>

\* defaultValues, the initial params (of the fields the model follows: h,
\* T, L and, for the fields without a special treatment, H)
defaultValues == [h |-> 20000, T |-> 8000, L |-> Undef, H |-> 2000]

\* the initial inputValues: '20', '8', '', '2'
defaultInputValues == [h |-> <<2000>>, T |-> <<800>>, L |-> <<>>, H |-> <<200>>]

\* handleInputBlur(field, defaultValue): the params and inputValues it sets
handleInputBlur(params, inputValues, field, defaultValue) ==
  LET strValue     == inputValues[field]
      defaultText  == IF defaultValue # Undef THEN toFixed2(defaultValue)
                      ELSE <<>>
      useDefault   == strValue = <<>> \/ Number(strValue) = NaN
      numValue     == IF useDefault THEN defaultValue ELSE Number(strValue)
      values1      == IF useDefault THEN [inputValues EXCEPT ![field] = defaultText]
                      ELSE inputValues
      updated      == [params EXCEPT ![field] = numValue]
  IN IF field \in {"h", "T", "L"}
     THEN IF truthy(updated.h) /\ truthy(updated.T) /\ ~truthy(updated.L)
          THEN (CHOOSE out \in {
                 [params |-> [updated EXCEPT !.L = L],
                  inputValues |-> [values1 EXCEPT !.L = toFixed2(L)]]
                 : L \in {jsDiv(TwoPi, solveWaveNumber(updated.h, updated.T), 1000)} }
                 : TRUE)
          ELSE IF truthy(updated.h) /\ truthy(updated.L) /\ ~truthy(updated.T)
          THEN (CHOOSE out \in {
                 [params |-> [updated EXCEPT !.T = result.T],
                  inputValues |-> [values1 EXCEPT !.T = toFixed2(result.T)]]
                 : result \in {solveFromWavelength(updated.h, Quot(updated.L, 100))} }
                 : TRUE)
          ELSE [params |-> updated, inputValues |-> values1]
     ELSE [params |-> updated, inputValues |-> values1]

\* the call of useWaveRefractionModel in a render of App3: the T and L it
\* passes and whether the hook throws its 'T or L required' error
modelCallOf(params) ==
  [T |-> params.T, L |-> params.L,
   threw |-> ~truthy(params.T) /\ ~truthy(params.L)]

(***************************************************************************)
(* State                                                                   *)
(***************************************************************************)
VARIABLES
  config,      \* the TerrainConfig the engine functions are called with
  coastline,   \* the result of generateCoastline, <<>> before the call
  grid,        \* the grid the engine functions mutate, <<>> before generateTerrain
  numbersT,    \* the T of the last updateWaveNumbers on this grid, Undef if none
  lastPass,    \* the last direction-field pass on this grid: mode, T, alpha0
  passes,      \* direction-field passes run on this grid
  userConfig,  \* the object the component passed to useWaveRefractionModel
  memo,        \* the useMemo cell of the hook: dependencies and cached value
  outcome,     \* of the last render: "none", "returned" or "threw"
  calls,       \* the engine calls the last render made, in order
  hookResult,  \* the ModelResult the last render returned
  view,        \* the props and memoised features of the mounted view
  ray,         \* the call of traceRayFromDeep in progress: its locals
  params,      \* the params state of App3
  inputValues, \* the inputValues state of App3: the texts of the input boxes
  modelCall,   \* the call of the hook in the last render of App3
  edits        \* the events the form has handled since App3 was mounted

engineVars == <<config, coastline, grid, numbersT, lastPass, passes>>
hookVars == <<userConfig, memo, outcome, calls, hookResult>>
rayVars == <<view, ray>>
appVars == <<params, inputValues, modelCall, edits>>
vars == <<config, coastline, grid, numbersT, lastPass, passes,
          userConfig, memo, outcome, calls, hookResult, view, ray,
          params, inputValues, modelCall, edits>>

(***************************************************************************)
(* Bounds and input sets                                                   *)
(***************************************************************************)
GridX == 3
GridY == 3
Samples == 10
MaxPasses == 2

\* domain sizes <<width, height>> in dm: 1000 m x 800 m and 10 m x 8 m
Domains == {<<10000, 8000>>, <<100, 80>>}
\* slopes in 1e-4: 0.0001, 0.0002, 0.01, 0.1
Slopes == {1, 2, 100, 1000}
\* bayDepth in dm: 0 and 10 m
BayDepths == {0, 100}
\* capeExtension in dm: 0 and 2000 m
CapeExtensions == {0, 20000}
\* coastlineBaselineRatio in 1e-3: absent and 0.7
BaselineRatios == {Undef, 700}
\* periods in ms
Periods == {5000, 8000}
\* deep-water angles in milliradians: 0, 30 degrees, -45 degrees
Alpha0s == {0, 524, -785}

TerrainConfigs ==
  { [width |-> d[1], height |-> d[2], gridX |-> GridX, gridY |-> GridY,
     slope |-> sl, bayDepth |-> b, capeExtension |-> c,
     coastlineBaselineRatio |-> r] :
      d \in Domains, sl \in Slopes, b \in BayDepths, c \in CapeExtensions,
      r \in BaselineRatios }

NoPass == [mode |-> "none", T |-> Undef, alpha0 |-> Undef]

(***************************************************************************)
(* The engine called function by function                                  *)
(***************************************************************************)
EngineIdle ==
  /\ coastline = <<>>
  /\ grid = <<>>
  /\ numbersT = Undef
  /\ lastPass = NoPass
  /\ passes = 0

NoUserConfig == [f \in ConfigFields |-> Absent]
NoMemo == [valid |-> FALSE, deps |-> <<>>, result |-> NoResult]

HookIdle ==
  /\ userConfig = NoUserConfig
  /\ memo = NoMemo
  /\ outcome = "none"
  /\ calls = <<>>
  /\ hookResult = NoResult

NoView == [version |-> "none", width |-> 0, height |-> 0, gridX |-> 0,
           gridY |-> 0, bayDepth |-> 0, capeExtension |-> 0, alpha0 |-> 0,
           dispersion |-> NoDispersion, mode |-> "none", grid |-> <<>>,
           coastline |-> <<>>, features |-> <<>>]
NoRay == [phase |-> "idle", x |-> 0, y |-> 0, step |-> 0, path |-> <<>>,
          broke |-> FALSE, iterations |-> 0, measured |-> <<>>,
          front |-> <<>>]

RayIdle ==
  /\ view = NoView
  /\ ray = NoRay

\* App3 as mounted: the initial state of its two useState cells and its
\* first render
AppMounted ==
  /\ params = defaultValues
  /\ inputValues = defaultInputValues
  /\ modelCall = modelCallOf(defaultValues)
  /\ edits = 0

Init ==
  /\ config \in TerrainConfigs
  /\ EngineIdle
  /\ HookIdle
  /\ RayIdle
  /\ AppMounted

CallGenerateCoastline ==
  /\ coastline' = generateCoastline(config, Samples)
  /\ UNCHANGED <<config, grid, numbersT, lastPass, passes>>
  /\ UNCHANGED hookVars
  /\ UNCHANGED appVars
  /\ UNCHANGED rayVars

CallGenerateTerrain ==
  /\ grid' = generateTerrain(config)
  /\ numbersT' = Undef
  /\ lastPass' = NoPass
  /\ passes' = 0
  /\ UNCHANGED <<config, coastline>>
  /\ UNCHANGED hookVars
  /\ UNCHANGED appVars
  /\ UNCHANGED rayVars

CallUpdateWaveNumbers ==
  /\ grid # <<>>
  /\ \E T \in Periods :
       /\ grid' = updateWaveNumbers(grid, T)
       /\ numbersT' = T
  /\ lastPass' = NoPass
  /\ UNCHANGED <<config, coastline, passes>>
  /\ UNCHANGED hookVars
  /\ UNCHANGED appVars
  /\ UNCHANGED rayVars

CallUpdateWaveDirections ==
  /\ grid # <<>>
  /\ passes < MaxPasses
  /\ \E T \in Periods, alpha0 \in Alpha0s :
       /\ grid' = updateWaveDirections(grid, T, alpha0)
       /\ lastPass' = [mode |-> "snell", T |-> T, alpha0 |-> alpha0]
  /\ passes' = passes + 1
  /\ UNCHANGED <<config, coastline, numbersT>>
  /\ UNCHANGED hookVars
  /\ UNCHANGED appVars
  /\ UNCHANGED rayVars

CallUpdateWaveDirectionsFDM ==
  /\ grid # <<>>
  /\ passes < MaxPasses
  /\ \E T \in Periods, alpha0 \in Alpha0s :
       /\ grid' = updateWaveDirectionsFDM(grid, T, alpha0)
       /\ lastPass' = [mode |-> "fdm", T |-> T, alpha0 |-> alpha0]
  /\ passes' = passes + 1
  /\ UNCHANGED <<config, coastline, numbersT>>
  /\ UNCHANGED hookVars
  /\ UNCHANGED appVars
  /\ UNCHANGED rayVars

Next ==
  \/ CallGenerateCoastline
  \/ CallGenerateTerrain
  \/ CallUpdateWaveNumbers
  \/ CallUpdateWaveDirections
  \/ CallUpdateWaveDirectionsFDM

Spec == Init /\ [][Next]_vars

(***************************************************************************)
(* The hook across renders                                                 *)
(***************************************************************************)
\* the objects a component passes: every field absent (so defaulted) but
\* h (0 m), T (undefined, 0, -8 s), L (undefined, 100 m, -100 m) and
\* alpha0 (30 degrees)
UserConfigs ==
  { [NoUserConfig EXCEPT !.h = h, !.T = T, !.L = L, !.alpha0 = a] :
      h \in {Absent, 0}, T \in {Absent, Undef, 0, -8000},
      L \in {Absent, Undef, 1000, -1000}, a \in {Absent, 30} }

HookDefaultConfig ==
  [width |-> 10000, height |-> 8000, gridX |-> GridX, gridY |-> GridY,
   slope |-> 100, bayDepth |-> 100, capeExtension |-> 500,
   coastlineBaselineRatio |-> Undef]

InitHook ==
  /\ config = HookDefaultConfig
  /\ EngineIdle
  /\ HookIdle
  /\ RayIdle
  /\ AppMounted

\* one render of a component that calls useWaveRefractionModel(uc)
Render ==
  \E uc \in UserConfigs :
    LET cfg  == mergeConfig(uc)
        deps == depsOf(cfg)
    IN /\ userConfig' = uc
       /\ IF memo.valid /\ memo.deps = deps
          THEN \* the dependencies are unchanged: the cached value is returned
               /\ outcome' = "returned"
               /\ hookResult' = memo.result
               /\ calls' = <<>>
               /\ UNCHANGED memo
          ELSE \E run \in {computeModel(cfg)} :
                 IF run.threw
                 THEN /\ outcome' = "threw"
                      /\ hookResult' = NoResult
                      /\ calls' = <<>>
                      /\ UNCHANGED memo
                 ELSE /\ outcome' = "returned"
                      /\ hookResult' = run.result
                      /\ calls' = run.calls
                      /\ memo' = [valid |-> TRUE, deps |-> deps, result |-> run.result]
       /\ UNCHANGED engineVars
       /\ UNCHANGED rayVars
       /\ UNCHANGED appVars

NextHook == Render

SpecHook == InitHook /\ [][NextHook]_vars

(***************************************************************************)
(* The view tracing its rays                                               *)
(***************************************************************************)
\* the grid resolution, coastline sampling and ray count of the traced
\* views (80 x 60 cells, 300 samples, 32 resp. 18 rays in the source)
RayGridX == 4
RayGridY == 4
RaySamples == 8
RayCount == 8

\* terrains the views show: the default one, a steep one with a cape that
\* reaches above half the domain height, a steep one with a straight coast
RayTerrains ==
  { [width |-> 10000, height |-> 8000, gridX |-> RayGridX, gridY |-> RayGridY,
     slope |-> t[1], bayDepth |-> t[2], capeExtension |-> t[3],
     coastlineBaselineRatio |-> Undef] :
      t \in {<<100, 100, 500>>, <<1000, 0, 6000>>, <<1000, 0, 0>>} }
\* deep-water angles in degrees
RayAlpha0s == {0, 30, 80}
\* periods in ms
RayPeriods == {8000, 3000}
\* how the direction field of the grid was computed: per-column pass,
\* finite-difference pass, or the call the hook makes
RayModes == {"snell", "fdm", "hook"}

\* the wave-state grid of a terrain
rayGridOf(tc, T, mode, alpha0) ==
  LET alpha0_rad == degToRad(alpha0)
  IN The({ IF mode = "snell" THEN updateWaveDirections(g1, T, alpha0_rad)
           ELSE IF mode = "fdm" THEN updateWaveDirectionsFDM(g1, T, alpha0_rad)
           ELSE updateWaveDirections(g1, alpha0_rad, Undef) :
             g1 \in {updateWaveNumbers(generateTerrain(tc), T)} })

\* the props of a mounted view with its memoised coastal features
viewOf(version, tc, T, mode, alpha0) ==
  The({ [version |-> version, width |-> tc.width, height |-> tc.height,
         gridX |-> tc.gridX, gridY |-> tc.gridY, bayDepth |-> tc.bayDepth,
         capeExtension |-> tc.capeExtension, alpha0 |-> alpha0,
         dispersion |-> solveDispersion(20000, T), mode |-> mode,
         grid |-> rayGridOf(tc, T, mode, alpha0),
         coastline |-> coast, features |-> coastalFeatures(coast)] :
          coast \in {generateCoastline(tc, RaySamples)} })

\* a coastline prop that is flat except for one symmetric notch: the samples
\* within halfWidth of the sample centre lie lower by depth (in dm)
notchCoastline(coast, centre, halfWidth, depth) ==
  Computed([idx \in DOMAIN coast |->
              IF Abs(idx - centre) <= halfWidth
              THEN [coast[idx] EXCEPT !.y = coast[idx].y - depth]
              ELSE coast[idx]])

\* the centre samples, half widths (in samples) and depths of the notches
NotchCentres == {3, 4}
NotchHalfWidths == {0, 1}
NotchDepths == {10, 500}

\* views of the straight coast whose coastline prop has one notch
NotchViews ==
  { The({ [v EXCEPT !.coastline = coast, !.features = coastalFeatures(coast)] :
            coast \in {notchCoastline(v.coastline, centre, halfWidth, depth)} }) :
      v \in { viewOf(version, tc, 8000, "snell", 0) :
                version \in {"current", "older"},
                tc \in {t \in RayTerrains : t.bayDepth = 0 /\ t.capeExtension = 0} },
      centre \in NotchCentres, halfWidth \in NotchHalfWidths, depth \in NotchDepths }

Views ==
  { viewOf(version, tc, T, mode, alpha0) :
      version \in {"current", "older"}, tc \in RayTerrains, T \in RayPeriods,
      mode \in RayModes, alpha0 \in RayAlpha0s }
  \cup NotchViews

InitRay ==
  /\ config = HookDefaultConfig
  /\ EngineIdle
  /\ HookIdle
  /\ view \in Views
  /\ ray = NoRay
  /\ AppMounted

\* the view calls traceRayFromDeep for one of its rays: the statements
\* before the loop
StartRay ==
  /\ ray.phase \in {"idle", "done", "measured", "front"}
  /\ \E n \in 0..(RayCount - 1) :
       IF view.version = "current"
       THEN LET start == launchPoint_current(view, n, RayCount)
            IN ray' = [NoRay EXCEPT !.phase = "loop", !.x = start.x, !.y = start.y]
       ELSE LET topPoint == view.grid[view.gridY - 1][launchIndex_older(view, n, RayCount)]
            IN IF jsLe(topPoint.h, 50)
               THEN ray' = [NoRay EXCEPT !.phase = "done"]
               ELSE ray' = [NoRay EXCEPT !.phase = "loop", !.x = topPoint.x,
                                         !.y = topPoint.y]
  /\ UNCHANGED view
  /\ UNCHANGED engineVars
  /\ UNCHANGED hookVars
  /\ UNCHANGED appVars

\* an iteration that also stores the position it reached in the coastline
RayStep_writesCoastline ==
  /\ ray.phase = "loop"
  /\ ~ray.broke
  /\ loopContinues(view, ray.step)
  /\ ray' = traceRayBody(view, ray)
  /\ view' = [view EXCEPT !.coastline[0].y = ray.y]
  /\ UNCHANGED engineVars
  /\ UNCHANGED hookVars
  /\ UNCHANGED appVars

\* one iteration of the for loop
RayStep ==
  /\ ray.phase = "loop"
  /\ ~ray.broke
  /\ loopContinues(view, ray.step)
  /\ ray' = traceRayBody(view, ray)
  /\ UNCHANGED view
  /\ UNCHANGED engineVars
  /\ UNCHANGED hookVars
  /\ UNCHANGED appVars

\* the loop is left by a break or by its test; the statements after it run
\* and the path is returned
RayReturn ==
  /\ ray.phase = "loop"
  /\ ray.broke \/ ~loopContinues(view, ray.step)
  /\ ray' = [ray EXCEPT !.phase = "done", !.path = traceRayReturn(view, ray)]
  /\ UNCHANGED view
  /\ UNCHANGED engineVars
  /\ UNCHANGED hookVars
  /\ UNCHANGED appVars

\* the view keeps a returned path of more than two points (in the current
\* view: with a point inside the domain) with its distances to the coast
AttachDistance ==
  /\ ray.phase = "done"
  /\ Len(ray.path) > 2
  /\ view.version = "current" =>
       \E n \in 1..Len(ray.path) :
         /\ jsGe(ray.path[n].x, 0) /\ jsLe(ray.path[n].x, view.width)
         /\ jsGe(ray.path[n].y, 0) /\ jsLe(ray.path[n].y, view.height)
  /\ ray' = [ray EXCEPT !.phase = "measured",
                        !.measured = attachDistanceToCoast(ray.path)]
  /\ UNCHANGED view
  /\ UNCHANGED engineVars
  /\ UNCHANGED hookVars
  /\ UNCHANGED appVars

\* the view draws one of its wavefronts: all rays are traced and measured,
\* then the body of the loop over w runs for one w; the points pushed onto
\* rawPoints are kept per ray path
DrawWavefront ==
  /\ ray.phase = "idle"
  /\ \E rayPaths \in {rayPathsOf(view, RayCount)} :
       \E w \in 1..desiredWavefronts :
         IF Len(rayPaths) > 1
         THEN \E maxDistance \in
                  {CHOOSE m \in {rayPaths[p][1].distToCoast : p \in 1..Len(rayPaths)} :
                     \A p \in 1..Len(rayPaths) : m >= rayPaths[p][1].distToCoast} :
                \E targetDistance \in {Quot(w * maxDistance, desiredWavefronts + 1)} :
                  ray' = [NoRay EXCEPT
                            !.phase = "front",
                            !.front = [w |-> w, rayPaths |-> rayPaths,
                                       targetDistance |-> targetDistance,
                                       rawPoints |->
                                         [p \in 1..Len(rayPaths) |->
                                            wavefrontPoint(view, rayPaths[p],
                                                           targetDistance)]]]
         ELSE ray' = [NoRay EXCEPT !.phase = "front",
                                   !.front = [w |-> w, rayPaths |-> rayPaths,
                                              targetDistance |-> 0,
                                              rawPoints |-> <<>>]]
  /\ UNCHANGED view
  /\ UNCHANGED engineVars
  /\ UNCHANGED hookVars
  /\ UNCHANGED appVars

NextRay ==
  \/ StartRay
  \/ RayStep
  \/ RayReturn
  \/ AttachDistance
  \/ DrawWavefront

SpecRay == InitRay /\ [][NextRay]_vars

(***************************************************************************)
(* App3 and its form                                                       *)
(***************************************************************************)
\* the number of events of the form (changes, blurs, resets) that are followed
MaxEdits == 4

\* the texts a user types into the input boxes: '', '0' and another number
TypedTexts ==
  [h |-> {<<>>, <<0>>, <<1000>>},
   T |-> {<<>>, <<0>>, <<500>>},
   L |-> {<<>>, <<0>>, <<10000>>},
   H |-> {<<>>, <<300>>}]

InitApp ==
  /\ config = HookDefaultConfig
  /\ EngineIdle
  /\ HookIdle
  /\ RayIdle
  /\ AppMounted

\* onChange of an input box: handleInputChange(field, value); the render
\* that follows calls the hook with the same params
HandleInputChange ==
  /\ ~modelCall.threw
  /\ edits < MaxEdits
  /\ edits' = edits + 1
  /\ \E field \in DOMAIN TypedTexts : \E value \in TypedTexts[field] :
       inputValues' = [inputValues EXCEPT ![field] = value]
  /\ UNCHANGED <<params, modelCall>>
  /\ UNCHANGED engineVars
  /\ UNCHANGED hookVars
  /\ UNCHANGED rayVars

\* onBlur of an input box: handleInputBlur(field, defaultValue), then the
\* render with the new params
HandleInputBlur ==
  /\ ~modelCall.threw
  /\ edits < MaxEdits
  /\ edits' = edits + 1
  /\ \E box \in {<<"h", 20000>>, <<"T", 8000>>, <<"L", Undef>>, <<"H", 2000>>} :
       \E next \in {handleInputBlur(params, inputValues, box[1], box[2])} :
         /\ params' = next.params
         /\ inputValues' = next.inputValues
         /\ modelCall' = modelCallOf(next.params)
  /\ UNCHANGED engineVars
  /\ UNCHANGED hookVars
  /\ UNCHANGED rayVars

\* the reset button: handleReset, then the render
HandleReset ==
  /\ ~modelCall.threw
  /\ edits < MaxEdits
  /\ edits' = edits + 1
  /\ params' = defaultValues
  /\ inputValues' = defaultInputValues
  /\ modelCall' = modelCallOf(defaultValues)
  /\ UNCHANGED engineVars
  /\ UNCHANGED hookVars
  /\ UNCHANGED rayVars

NextApp ==
  \/ HandleInputChange
  \/ HandleInputBlur
  \/ HandleReset

SpecApp == InitApp /\ [][NextApp]_vars

(***************************************************************************)
(* Properties                                                              *)
(***************************************************************************)
Rows == IF grid = <<>> THEN {} ELSE DOMAIN grid
Cols == IF grid = <<>> THEN {} ELSE DOMAIN grid[0]
DeepRow == Len2(grid) - 1
AfterNumbersThenPass == numbersT # Undef /\ lastPass.mode \in {"snell", "fdm"}

\* C1: after updateWaveNumbers followed by a direction-field pass on a grid
\* of generateTerrain, every cell with h <= 0.1 has k = 0, c = 0 and
\* alpha = 0, and every cell with h > 0.1 has k > 0, in every row.
C1_DepthGridInvariant ==
  AfterNumbersThenPass =>
    \A j \in Rows : \A i \in Cols :
      /\ grid[j][i].h <= WetDepth =>
           grid[j][i].k = 0 /\ grid[j][i].c = 0 /\ grid[j][i].alpha = 0
      /\ grid[j][i].h > WetDepth => jsGt(grid[j][i].k, 0)

\* C2: after either direction-field pass every cell of the deep-water row
\* has alpha equal to alpha0.
C2_DeepRowIsAlpha0 ==
  lastPass.mode \in {"snell", "fdm"} =>
    \A i \in Cols : grid[DeepRow][i].alpha = lastPass.alpha0

\* C2 (amended): after either direction-field pass every cell of the
\* deep-water row with h > 0.1 and k > 0 has alpha equal to alpha0.
C2_WetDeepRowIsAlpha0 ==
  lastPass.mode \in {"snell", "fdm"} =>
    \A i \in Cols : isWet(grid[DeepRow][i]) => grid[DeepRow][i].alpha = lastPass.alpha0

\* a per-column pass with alpha0 # 0 over a deep-water row that has both a
\* wet and a dry cell
C2_Witness ==
  /\ lastPass.mode = "snell"
  /\ lastPass.alpha0 # 0
  /\ \E i \in Cols : isWet(grid[DeepRow][i])
  /\ \E i \in Cols : ~isWet(grid[DeepRow][i])


CoastMinY == (2 * config.height) \div 100
CoastMaxY == (6 * config.height) \div 10
CoastPoints == IF coastline = <<>> THEN {} ELSE DOMAIN coastline

C10_BayRaisesCapeLowers ==
  \A i \in CoastPoints :
    LET x == coastline[i].x
        baselineY == Quot(baselineRatioOf(config) * config.height, 1000)
    IN /\ rawCoastlineY(x, config) = baselineY + bayEffect(x, config) - capeEffect(x, config)
       /\ rawCoastlineY(x, config) >= rawCoastlineY(x, [config EXCEPT !.bayDepth = 0])
       /\ rawCoastlineY(x, config) <= rawCoastlineY(x, [config EXCEPT !.capeExtension = 0])


Rendered == outcome # "none"
MergedConfig == mergeConfig(userConfig)
ResultRows == IF hookResult.grid = <<>> THEN {} ELSE DOMAIN hookResult.grid
ResultCols == IF hookResult.grid = <<>> THEN {} ELSE DOMAIN hookResult.grid[0]
CallsTo(fn) == {n \in DOMAIN calls : calls[n].fn = fn}

\* C3: the hook converts config.alpha0 to radians and the direction solver
\* works with that value: every wet cell of the deep-water row of the grid
\* it returns has alpha = config.alpha0 * pi / 180, and the period the
\* direction solver receives is dispersion.T.
C3_HookPassesAlpha0AndPeriod ==
  outcome = "returned" =>
    LET alpha0_rad == degToRad(MergedConfig.alpha0)
        deep       == Len2(hookResult.grid) - 1
    IN /\ \A i \in ResultCols :
            hookResult.grid[deep][i].h > WetDepth =>
              hookResult.grid[deep][i].alpha = alpha0_rad
       /\ \A n \in CallsTo("updateWaveDirections") :
            calls[n].a1 = hookResult.dispersion.T /\ calls[n].a2 = alpha0_rad

\* C6: the hook rejects with an error, calling no solver, every
\* configuration whose h is <= 0, whose T is <= 0 or whose L is <= 0.
C6_RejectsNonPositive ==
  (Rendered /\ (jsLe(MergedConfig.h, 0) \/ jsLe(MergedConfig.T, 0)
                  \/ jsLe(MergedConfig.L, 0)))
    => outcome = "threw" /\ calls = <<>>

\* C7: when the caller's configuration supplies neither T nor L the hook
\* fails with an error before any stage runs; it never computes a result
\* from a defaulted period.
C7_RejectsMissingPeriodAndWavelength ==
  (Rendered /\ userConfig.T \in {Absent, Undef} /\ userConfig.L \in {Absent, Undef})
    => outcome = "threw" /\ calls = <<>>

\* C8: when the caller's configuration supplies a wavelength L and no period
\* T the dispersion result is the one solveFromWavelength derives from L.
C8_WavelengthModeUsesWavelength ==
  (outcome = "returned" /\ userConfig.T = Absent /\ jsGt(userConfig.L, 0))
    => /\ hookResult.dispersion.L = userConfig.L
       /\ hookResult.dispersion = solveFromWavelength(MergedConfig.h, userConfig.L)

\* the path traceRayFromDeep returned
Returned == ray.phase = "done"
LastPoint == ray.path[Len(ray.path)]
OnCoastline(p) == IsNum(p.x) /\ IsNum(p.y) /\ p.y = getCoastlineY(view.coastline, p.x)
OnBoundary(p) == p.x = 0 \/ p.x = view.width \/ p.y = 0

\* C4: a non-empty path returned by traceRayFromDeep ends on the coastline
\* (y = getCoastlineY(x)) or on a domain boundary (x = 0, x = width or
\* y = 0), also when the ray was stopped by the step cap or a failed sample.
C4_PathEndsOnCoastOrBoundary ==
  (Returned /\ ray.path # <<>>) => OnCoastline(LastPoint) \/ OnBoundary(LastPoint)

\* C5: the loop of traceRayFromDeep runs at most maxSteps iterations and
\* the path holds at most maxSteps + 1 points, whatever the sampled angles.
C5_StepCapBoundsLoopAndPath ==
  /\ ray.iterations <= maxStepsOf(view)
  /\ Len(ray.path) <= maxStepsOf(view) + 1

\* a ray that was stopped by the step cap: it made maxSteps iterations without
\* a break, sampling an angle whose cosine is below 0.1 at its last position
C5_Witness ==
  /\ Returned
  /\ ~ray.broke
  /\ ray.iterations = maxStepsOf(view)
  /\ Len(ray.path) = maxStepsOf(view)
  /\ jsLt(mathCos(samplePoint(view, ray.x, ray.y).alpha), 100)

(***************************************************************************)
(* The configured widths                                                   *)
(***************************************************************************)
\* widths a caller may configure instead of the defaults 100 m and 200 m, in dm
OtherBayWidths == {500, 2000}
OtherCapeWidths == {1000, 4000}

\* the coastline the hook returns for the merged configuration cfg
hookCoastline(cfg) == generateCoastline(terrainConfigOf(cfg), HookSamples)

\* C11: two configurations that differ only in bayWidth, or only in
\* capeWidth, give different coastlines: the coastline the hook returned
\* differs from the one it returns when only that width is changed.
C11_WidthsShapeCoastline ==
  (outcome = "returned" /\ MergedConfig.bayDepth > 0 /\ MergedConfig.capeExtension > 0) =>
    /\ \A w \in OtherBayWidths :
         hookCoastline([MergedConfig EXCEPT !.bayWidth = w]) # hookResult.coastline
    /\ \A w \in OtherCapeWidths :
         hookCoastline([MergedConfig EXCEPT !.capeWidth = w]) # hookResult.coastline

(***************************************************************************)
(* The Newton iteration of solveWaveNumber                                 *)
(***************************************************************************)
\* sigma^2 and the first guess sigma^2 / g of solveWaveNumber for the period T
sigma2Of(T) == Quot(angularFrequency(T) * angularFrequency(T), 10000)
firstGuess(T) == Quot(sigma2Of(T) * 100, GRAVITY)

RECURSIVE iteratesFrom(_, _, _)
\* the iterates k_0, k_1, ... of the loop, one Newton step after the other,
\* up to and including the first one closer than the tolerance to its
\* predecessor, and no more than MAX_ITERATIONS steps
iteratesFrom(ks, h, sigma2) ==
  IF Len(ks) > MAX_ITERATIONS THEN ks
  ELSE LET k     == ks[Len(ks)]
           k_new == newtonStep(k, h, sigma2)
       IN IF Abs(k_new - k) * 100 < TOLERANCE THEN Append(ks, k_new)
          ELSE iteratesFrom(Append(ks, k_new), h, sigma2)

\* the depths of the cells for which updateWaveNumbers called the solver
SolvedDepths ==
  IF numbersT = Undef THEN {}
  ELSE {h \in {grid[j][i].h : j \in Rows, i \in Cols} : jsGt(h, WetDepth)}

IsNotched(centre, halfWidth, depth) ==
  /\ \A idx \in DOMAIN view.coastline :
       view.coastline[idx].y =
         view.coastline[0].y - (IF Abs(idx - centre) <= halfWidth THEN depth ELSE 0)
  /\ view \in NotchViews

\* C14: on a coastline that is flat except for one symmetric notch centred
\* on a sample, feature detection returns exactly one feature: a bay at the
\* midpoint of the notch with strength 1.0.
C14_NotchIsOneBay ==
  \A centre \in NotchCentres, halfWidth \in NotchHalfWidths, depth \in NotchDepths :
    IsNotched(centre, halfWidth, depth) =>
      /\ Len(view.features) = 1
      /\ view.features[1].type = "bay"
      /\ view.features[1].x = view.coastline[centre].x
      /\ view.features[1].strength = 1000

(***************************************************************************)
(* The ray tracer reads the grid and the coastline                         *)
(***************************************************************************)
\* C15: no step of tracing a ray or of measuring its path writes to a grid
\* cell or to a coastline point: the grid and the coastline of the view are
\* the same after any number of rays.
C15_RaysLeaveGridAndCoastline ==
  [][view'.grid = view.grid /\ view'.coastline = view.coastline]_vars

\* a ray has been traced through wet cells and its path measured
C15_Witness ==
  /\ ray.phase = "measured"
  /\ Len(ray.measured) > 3
  /\ ray.measured[1].distToCoast > 0
  /\ \E j \in DOMAIN view.grid : \E i \in DOMAIN view.grid[j] : isWet(view.grid[j][i])

(***************************************************************************)
(* The direction passes and the angles stored before them                  *)
(***************************************************************************)
\* the grid with the same x, y, h, k and c and the angle a stored in every cell
withAlpha(g, a) ==
  [j \in DOMAIN g |-> [i \in DOMAIN g[j] |-> [g[j][i] EXCEPT !.alpha = a]]]

\* angles a caller may have left in the cells, in milliradians
StoredAlphas == {0, 300, -900}

\* the pass that was run last, run on the grid g
lastPassOn(g) ==
  IF lastPass.mode = "snell" THEN updateWaveDirections(g, lastPass.T, lastPass.alpha0)
  ELSE updateWaveDirectionsFDM(g, lastPass.T, lastPass.alpha0)

\* C16: the angles a direction pass (per column or finite difference) leaves
\* depend on h, k, c, T and alpha0 only: the pass gives the same field
\* whatever angles the cells held before it, and run a second time it
\* changes nothing.
C16_PassForgetsStoredAlpha ==
  (numbersT # Undef /\ lastPass.mode \in {"snell", "fdm"}) =>
    /\ lastPassOn(grid) = grid
    /\ \A a \in StoredAlphas : lastPassOn(withAlpha(grid, a)) = grid

(***************************************************************************)
(* The memoised result of the hook                                         *)
(***************************************************************************)
\* C17: across renders the result the hook returns is the one computed from
\* the current merged configuration: a render whose configuration differs in
\* some field from that of the previous returned result computes anew, and a
\* render with a value-equal configuration returns the cached result and
\* calls nothing.
C17_MemoFollowsConfig ==
  /\ [](outcome = "returned" => hookResult = computeModel(MergedConfig).result)
  /\ [][(outcome = "returned" /\ outcome' = "returned") =>
          IF mergeConfig(userConfig') = MergedConfig
          THEN calls' = <<>> /\ hookResult' = hookResult
          ELSE calls' # <<>>]_vars

\* a render with a configured angle returned the cached result
C17_Witness ==
  /\ outcome = "returned"
  /\ calls = <<>>
  /\ userConfig.alpha0 # Absent
  /\ memo.valid /\ hookResult = memo.result
  /\ hookResult.grid # <<>>

(***************************************************************************)
(* The per-column pass conserves c sin(alpha)                              *)
(***************************************************************************)
\* the phase speed sigma / k the per-column pass computes for a cell
phaseSpeedInPass(point) == jsDiv(angularFrequency(lastPass.T), point.k, 1000)

\* I = c_first * sin(alpha0) at the first wet cell of column i from the deep
\* edge
snellInvariantOfColumn(i) ==
  jsMul(phaseSpeedInPass(grid[firstWetRow(grid, i, DeepRow)][i]),
        mathSin(lastPass.alpha0), 1000)

\* the wet cells below the deep-water row, as <<row, column>>
WetBelowDeepRow ==
  {cell \in (Rows \ {DeepRow}) \X Cols : isWet(grid[cell[1]][cell[2]])}

withAlphaAhead(g, j, i, a) ==
  [jj \in DOMAIN g |->
     [ii \in DOMAIN g[jj] |->
        IF jj = j - 1 \/ (jj = j /\ ii > i) THEN [g[jj][ii] EXCEPT !.alpha = a]
        ELSE g[jj][ii]]]

\* C19: in the finite-difference pass the angle written to a wet cell of row
\* j is determined by the cell's own k and by k and alpha of row j + 1 only:
\* it does not change with the angles of row j - 1 or of the cells of row j
\* not computed yet, and being asin of a ratio clamped to [-0.999, 0.999] it
\* lies in [-asin(0.999), asin(0.999)].
C19_FdmReadsDeeperRowOnly ==
  (numbersT # Undef /\ lastPass.mode = "fdm") =>
    \A cell \in WetBelowDeepRow :
      /\ \A a \in StoredAlphas :
           fdmAlpha(withAlphaAhead(grid, cell[1], cell[2], a), cell[1], cell[2],
                    lastPass.alpha0)
             = fdmAlpha(grid, cell[1], cell[2], lastPass.alpha0)
      /\ Abs(grid[cell[1]][cell[2]].alpha) <= mathAsin(RatioClamp)

(***************************************************************************)
(* The advance of a ray where no feature acts                              *)
(***************************************************************************)
\* the displacement the loop body computes at the position of the ray
AdvanceHere ==
  rayAdvance(view, ray.x, ray.y, samplePoint(view, ray.x, ray.y).alpha)

\* the loop body runs on a wet sample, so the ray is moved
RayMoves ==
  /\ ray.phase = "loop" /\ ray'.phase = "loop"
  /\ ray'.iterations = ray.iterations + 1
  /\ samplePoint(view, ray.x, ray.y) # NoSample
  /\ ~jsLe(samplePoint(view, ray.x, ray.y).h, WetDepth)

\* C20: at every step of traceRayFromDeep at which no coastal feature acts
\* (there are no features, or the ray is outside the near-shore zone) the
\* ray moves by dx = stepSize sin(alpha) and dy = -stepSize cos(alpha) for
\* the sampled alpha.
C20_StepFollowsAlpha ==
  [][(RayMoves /\ ~AdvanceHere.zone) =>
       /\ ray'.x = jsAdd(ray.x, AdvanceHere.dxStep)
       /\ ray'.y = jsSub(ray.y, AdvanceHere.dyStep)]_vars

(***************************************************************************)
(* The clamp of the lateral shift                                          *)
(***************************************************************************)
\* the change of currentX made by the loop body
ShiftHere == jsSub(ray'.x, ray.x)

\* C21: at every step of traceRayFromDeep the change of x is bounded by a
\* fixed fraction of stepSize whatever the features and angles are: at most
\* 0.25 stepSize in the current view (0.05 stepSize when the ray is at
\* least 0.3 domainHeight above the coastline), at most 0.75 stepSize in
\* the older view.
C21_LateralShiftBounded ==
  [][RayMoves =>
       /\ IsNum(ShiftHere)
       /\ IF view.version = "current"
          THEN /\ 4 * Abs(ShiftHere) <= stepSizeOf(view)
               /\ 10 * AdvanceHere.distanceToCoast >= 3 * view.height
                    => 20 * Abs(ShiftHere) <= stepSizeOf(view)
          ELSE 4 * Abs(ShiftHere) <= 3 * stepSizeOf(view)]_vars

(***************************************************************************)
(* The direction of the lateral adjustment                                 *)
(***************************************************************************)
\* the loop body is about to run on a wet sample inside the near-shore zone
AdjustsHere ==
  /\ ray.phase = "loop" /\ ~ray.broke /\ loopContinues(view, ray.step)
  /\ IsNum(ray.x) /\ IsNum(ray.y)
  /\ samplePoint(view, ray.x, ray.y) # NoSample
  /\ ~jsLe(samplePoint(view, ray.x, ray.y).h, WetDepth)
  /\ AdvanceHere.zone

\* C22: inside the near-shore influence zone each bay feature's contribution
\* to the lateral adjustment moves the ray's x toward that bay's centre
\* (not positive right of the centre, not negative left of it) and each
\* cape feature's contribution moves it away from that cape's centre.
C22_BayPullsCapePushes ==
  AdjustsHere =>
    \A n \in 1..Len(view.features) :
      LET feature == view.features[n]
          term    == featureContribution(view, feature, ray.x)
          toward  == IF ray.x > feature.x THEN term <= 0 ELSE term >= 0
          away    == IF ray.x > feature.x THEN term >= 0 ELSE term <= 0
      IN IF feature.type = "bay" THEN toward ELSE away

(***************************************************************************)
(* The distances attached to a path                                        *)
(***************************************************************************)
\* whether s is the length of the segment from point i to point i + 1 of the
\* traced path, to the decimetre
IsSegmentLength(s, i) ==
  LET dx == ray.path[i + 1].x - ray.path[i].x
      dy == ray.path[i + 1].y - ray.path[i].y
  IN s >= 0 /\ s * s <= dx * dx + dy * dy /\ (s + 1) * (s + 1) > dx * dx + dy * dy

\* C24: attachDistanceToCoast returns the same points in the same order
\* with distToCoast = 0 at the last point and distToCoast of point i equal
\* to that of point i + 1 plus the length of segment (i, i + 1); the
\* distances do not increase with the index and the first point carries the
\* total length of the path.
C24_DistanceMeasuredFromCoast ==
  ray.phase = "measured" =>
    LET n == Len(ray.path)
        d(i) == ray.measured[i].distToCoast
    IN /\ Len(ray.measured) = n
       /\ \A i \in 1..n : /\ ray.measured[i].x = ray.path[i].x
                          /\ ray.measured[i].y = ray.path[i].y
       /\ d(n) = 0
       /\ \A i \in 1..(n - 1) : d(i) >= d(i + 1) /\ IsSegmentLength(d(i) - d(i + 1), i)
       /\ \A i \in 1..n : d(1) >= d(i)

\* a measured path of more than three points with segments of different
\* lengths, the first point more than a step away from the coast
C24_Witness ==
  /\ ray.phase = "measured"
  /\ Len(ray.measured) > 3
  /\ ray.measured[1].distToCoast > stepSizeOf(view)
  /\ \E i \in 1..(Len(ray.measured) - 2) :
       ray.measured[i].distToCoast - ray.measured[i + 1].distToCoast
         # ray.measured[i + 1].distToCoast - ray.measured[i + 2].distToCoast

(***************************************************************************)
(* The points of a wavefront                                               *)
(***************************************************************************)
\* a wavefront has been interpolated over more than one ray path
FrontDrawn == ray.phase = "front" /\ ray.front.rawPoints # <<>>

shortCoast(m) == [idx \in 0..(m - 1) |-> view.coastline[idx]]

\* the lengths below five samples
ShortLengths == 1..4

\* C25: every feature returned by the detection has a strength in (0, 1]
\* and a bandwidth of at least 8 steps, and its centre x lies between the x
\* of the first and of the last sample of its run; a flat coastline
\* (max |curvature| < 1e-6) and one of fewer than 5 samples yield no feature.
C25_FeaturesWellFormed ==
  view # NoView =>
    LET coast  == view.coastline
        step   == coastlineStep(coast)
        maxAbs == maxAbsCurvatureFrom(coast, 0)
    IN /\ \A n \in 1..Len(view.features) :
            LET feature == view.features[n]
            IN /\ feature.strength > 0 /\ feature.strength <= 1000
               /\ feature.bandwidth >= 8 * step
               /\ coast[feature.first].x <= feature.x
               /\ feature.x <= coast[feature.last].x
       /\ maxAbs = 0 => view.features = <<>>
       /\ view.features # <<>> => maxAbs >= 214 \/ maxAbs * 10000000 >= step * step
       /\ \A m \in ShortLengths : coastalFeatures(shortCoast(m)) = <<>>

\* a coastline with a feature weaker than the strongest, a feature centred
\* strictly inside a run of several samples, and whose first four samples
\* are not on a line
C25_Witness ==
  /\ view # NoView
  /\ \E n \in 1..Len(view.features) : view.features[n].strength < 1000
  /\ \E n \in 1..Len(view.features) :
       /\ view.features[n].last > view.features[n].first + 1
       /\ view.coastline[view.features[n].first].x < view.features[n].x
       /\ view.features[n].x < view.coastline[view.features[n].last].x
  /\ maxAbsCurvatureFrom(shortCoast(4), 0) > 0

(***************************************************************************)
(* The samples the scan covers                                             *)
(***************************************************************************)
\* the interior samples whose curvature reaches the threshold
AboveThreshold ==
  { i \in 1..(coastLength(view.coastline) - 2) :
      100 * Abs(curvatureAt(view.coastline, i))
        >= 18 * maxAbsCurvatureFrom(view.coastline, 0) }

\* the features whose run (the samples the inner loop accumulated:
\* segmentStart up to segmentEnd - 1) contains sample i
RunsWith(i) ==
  { n \in 1..Len(view.features) :
      view.features[n].first <= i /\ i < view.features[n].last }

\* C26: every interior coastline sample whose |curvature| is at least 0.18
\* of the maximum lies in the run of exactly one detected feature: the scan
\* skips no such sample, not even the one just after a run's end, counts
\* none twice, and its index strictly increases.
C26_ScanCoversEverySample ==
  (view # NoView /\ view.features # <<>>) =>
    /\ \A i \in AboveThreshold : Cardinality(RunsWith(i)) = 1
    /\ \A n \in 1..(Len(view.features) - 1) :
         view.features[n].last <= view.features[n + 1].first

(***************************************************************************)
(* The order of the stages of one computation                              *)
(***************************************************************************)
\* the position in calls of the one call of fn, 0 if there is not exactly one
CallIndex(fn) ==
  IF Cardinality(CallsTo(fn)) = 1 THEN CHOOSE n \in CallsTo(fn) : TRUE ELSE 0

\* the last render ran the callback of useMemo and it returned
Computed27 == outcome = "returned" /\ calls # <<>>

\* C27: in one computation of the hook the stages run in the order
\* dispersion solved, terrain grid generated, updateWaveNumbers, direction
\* pass: the direction pass starts only when every cell's k and c are
\* written, and the grid is returned only after the direction pass, so the
\* returned grid holds in every cell the k and c of updateWaveNumbers and
\* the alpha the direction pass computes from them.
C27_StagesInOrder ==
  Computed27 =>
    LET solved     == CallIndex("solveDispersion") + CallIndex("solveFromWavelength")
        terrain    == CallIndex("generateTerrain")
        numbers    == CallIndex("updateWaveNumbers")
        directions == CallIndex("updateWaveDirections")
    IN /\ 0 < solved /\ solved < terrain
       /\ terrain < numbers /\ numbers < directions
       /\ directions = Len(calls)
       /\ \A j \in ResultRows : \A i \in ResultCols :
            LET cell == hookResult.grid[j][i]
                numbered == updateWaveNumbers(hookResult.grid, hookResult.dispersion.T)[j][i]
            IN cell.k = numbered.k /\ cell.c = numbered.c
       /\ hookResult.grid = updateWaveDirections(hookResult.grid,
                                                 calls[directions].a1,
                                                 calls[directions].a2)

\* a computation that returned a grid with a wet cell below the deep row
\* whose k is positive and whose alpha the direction pass has set
C27_Witness ==
  /\ Computed27
  /\ \E j \in ResultRows : \E i \in ResultCols :
       /\ j < Len2(hookResult.grid) - 1
       /\ hookResult.grid[j][i].h > WetDepth
       /\ jsGt(hookResult.grid[j][i].k, 0)
       /\ hookResult.grid[j][i].alpha # 0

(***************************************************************************)
(* The angles along a column                                               *)
(***************************************************************************)
\* the grid holds the field of a per-column pass with a slanted deep-water
\* angle, run after updateWaveNumbers
SlantedSnellPass ==
  numbersT # Undef /\ lastPass.mode = "snell" /\ lastPass.alpha0 # 0

\* the wet cells of column i
WetRowsOf(i) == {j \in Rows : isWet(grid[j][i])}

\* the cap asin(0.999) of the angle, in milliradians
AlphaCap == mathAsin(RatioClamp)

\* C30: in per-column mode with alpha0 # 0 every wet cell's alpha has the
\* sign of alpha0, and within a column |alpha| does not decrease as the
\* phase speed c decreases: a wet cell with the smaller c has an |alpha| at
\* least that of a wet cell with the larger c, up to the cap asin(0.999).
C30_AlphaGrowsAsSpeedFalls ==
  SlantedSnellPass =>
    \A i \in Cols :
      /\ \A j \in WetRowsOf(i) :
           mathSign(grid[j][i].alpha) = mathSign(lastPass.alpha0)
      /\ \A slow \in WetRowsOf(i), fast \in WetRowsOf(i) :
           grid[slow][i].c < grid[fast][i].c =>
             Abs(grid[slow][i].alpha) >= mathMin(Abs(grid[fast][i].alpha), AlphaCap)

\* a column with two wet cells, the slower one holding the larger |alpha|,
\* below the cap
C30_Witness ==
  /\ SlantedSnellPass
  /\ \E i \in Cols :
       \E slow \in WetRowsOf(i), fast \in WetRowsOf(i) :
         /\ grid[slow][i].c < grid[fast][i].c
         /\ Abs(grid[slow][i].alpha) > Abs(grid[fast][i].alpha)
         /\ Abs(grid[slow][i].alpha) < AlphaCap

(***************************************************************************)
(* The form and the model's period and wavelength                          *)
(***************************************************************************)
\* C28: from App3's initial state no sequence of edits of the input boxes
\* with numeric texts (including "0"), blurs and resets leads to a render
\* in which useWaveRefractionModel is called with both T and L falsy: the
\* form never makes the model throw its 'T or L required' error.
C28_FormNeverStarvesModel ==
  /\ truthy(modelCall.T) \/ truthy(modelCall.L)
  /\ ~modelCall.threw

\* the wavelength of the dispersion relation for the form's h and T, in mm
WavelengthShownFor(h, T) == jsDiv(TwoPi, solveWaveNumber(h, T), 1000)

\* C29: after any sequence of handleInputBlur calls on the fields h, T and
\* L, whenever params.T and params.L are both set, params.L is the
\* wavelength 2 pi / solveWaveNumber(params.h, params.T) of the dispersion
\* relation (here: to the centimetre the form shows, for a depth h > 0).
C29_WavelengthFollowsDepthAndPeriod ==
  (truthy(params.h) /\ truthy(params.T) /\ truthy(params.L)) =>
    Abs(params.L - WavelengthShownFor(params.h, params.T)) <= 10

====
